---- MODULE Spec2Model ----
(***************************************************************************)
(* Model of the tool-orchestration loop call_llm_with_tools of llm_bot.py. *)
(*                                                                         *)
(* One run of call_llm_with_tools is a process that alternates between     *)
(* model calls (client.messages.create) and tool invocations               *)
(* (session.call_tool followed by extract_tool_result).  The model host    *)
(* and the tool host are the environment: every response, every failure    *)
(* and every tool outcome is chosen nondeterministically from small sets.  *)
(*                                                                         *)
(* Strings are sequences of tokens, so that joining, concatenating and     *)
(* emptiness are computed and not assumed.                                 *)
(***************************************************************************)
EXTENDS Integers, Sequences, FiniteSets, TLC

\* ------------------------------------------------------------------ bounds
MaxIter == 2        \* largest max_iterations a run is started with
MaxParts == 2       \* largest number of content parts in one model response
MaxWait == 2        \* largest max_wait_s, in seconds
MaxInterval == 2    \* largest wait_ms, in seconds
MaxFetchTime == 1   \* longest a status fetch takes, in seconds
MaxRowsArg == 2     \* largest max_rows
NumRuns == 2        \* number of questions the process handles
RunIterations == 1  \* max_iterations of the runs that are handled concurrently
MaxPieces == 3      \* largest number of pieces a statement is put together from
MaxItems == 2       \* largest number of content items in one tool response

\* --------------------------------------------------------------- constants
NL == <<"\n">>                                  \* the separator of "\n".join
RATE_LIMIT_APOLOGY == <<"I encountered a rate limit while processing your request. Please try again in a moment.">>
FALLBACK_SENTENCE == <<"I've completed the data analysis. Please check the results above.">>
SUMMARY_REQUEST == <<"Based on the database exploration and queries I've executed, please provide a comprehensive analysis">>

Questions == {<<"q">>}                          \* the caller's question text
Letters == <<<<"a">>, <<"b">>, <<"c">>, <<"d">>>>  \* the non-empty text a block can hold, by position
ToolRequests == {[name |-> "glue_list_databases", input |-> "i1"],
                 [name |-> "athena_query", input |-> "i2"]}

\* Exceptions raised by client.messages.create, by what str(e) contains.
Errors == [has429 : BOOLEAN, hasRateLimitWords : BOOLEAN]

\* What session.call_tool + extract_tool_result + json.dumps can do:
\*   value  : the tool result is extracted and serialized
\*   raise  : call_tool (or str(tool_result)) raises before line 282
\*   nojson : extract_tool_result returns a value json.dumps cannot encode
ToolOutcomes == {"value", "raise", "nojson"}

VARIABLES
    maxIterations,      \* parameter max_iterations
    messages,           \* the caller's list (parameter messages)
    current_messages,   \* the run's conversation
    iteration,          \* loop variable of "for iteration in range(...)"
    pc,                 \* "loop" | "awaitModel" | "awaitTool" | "awaitFinal" | "done"
    response,           \* response.content of the latest model call
    assistant_message,  \* the assistant message built from response
    tool_use_id,        \* content.id after the parsing loop
    calls,              \* one record per model call issued: were tools offered
    toolCalls,          \* one record per session.call_tool issued (with the id of its block)
    toolReturns,        \* one entry per session.call_tool that has come back: its outcome
    modelReturns,       \* number of model calls that have come back (response or exception)
    failure,            \* the exception a model call raised, and which call
    exit,               \* how the run ended
    outcome             \* what the caller receives

orchVars == <<maxIterations, messages, current_messages, iteration, pc, response,
              assistant_message, tool_use_id, calls, toolCalls, toolReturns, modelReturns,
              failure, exit, outcome>>

\* One call of the tool athena_results of aws_mcp_server.py, the remote query
\* execution it polls, and the wall clock.
VARIABLES
    query_execution_id, \* parameter query_execution_id
    queryExecutionId,   \* parameter queryExecutionId
    max_rows,           \* parameter max_rows
    wait_ms,            \* parameter wait_ms, in milliseconds
    max_wait_s,         \* parameter max_wait_s, in seconds
    now,                \* the wall clock _t.time(), in milliseconds
    start,              \* local start, in milliseconds
    q,                  \* local q: the QueryExecution of the latest status fetch
    execution,          \* the remote QueryExecution: its State and StateChangeReason
    ppc,                \* "off" | "call" | "poll" | "sleep" | "results" | "done"
    fetches,            \* number of get_query_execution calls made
    sleeps,             \* number of _t.sleep calls that have returned
    resultFetches,      \* number of get_query_results calls made
    fetchSlow,          \* has any status fetch taken time
    result              \* what the call returned or raised

pollVars == <<query_execution_id, queryExecutionId, max_rows, wait_ms, max_wait_s, now,
              start, q, execution, ppc, fetches, sleeps, resultFetches, fetchSlow, result>>

\* The questions being handled by the process, one record per handler invocation.
VARIABLE runs

\* Which tool of aws_mcp_server.py is called, and what athena_query works on.
VARIABLES
    fn,                 \* the tool called: "athena_results" | "athena_status" | "athena_query"
    sql,                \* parameter sql of athena_query, a sequence of characters
    started             \* the QueryString of every start_query_execution call made

queryVars == <<fn, sql, started>>

\* One call of extract_tool_result of llm_bot.py.
VARIABLES
    mcp_result,         \* parameter mcp_result
    extracted           \* what the call returned or raised

extractVars == <<mcp_result, extracted>>

vars == <<orchVars, pollVars, runs, queryVars, extractVars>>

NONE == "<None>"                                \* Python's None

\* The value of q before the first status fetch.
Unfetched == [State |-> NONE, StateChangeReason |-> NONE]

\* No call of athena_results is in progress.
PollerOff ==
    /\ query_execution_id = NONE
    /\ queryExecutionId = NONE
    /\ max_rows = 0
    /\ wait_ms = 0
    /\ max_wait_s = 0
    /\ now = 0
    /\ start = 0
    /\ q = Unfetched
    /\ execution = NONE
    /\ ppc = "off"
    /\ fetches = 0
    /\ sleeps = 0
    /\ resultFetches = 0
    /\ fetchSlow = FALSE
    /\ result = [kind |-> "none"]

\* No handler has been invoked.
NoRuns == runs = << >>

\* athena_query is not called.
QueryOff ==
    /\ sql = << >>
    /\ started = << >>

\* No tool of the server is called.
ServerOff ==
    /\ fn = NONE
    /\ QueryOff

\* extract_tool_result is not called.
NotCalled == [content |-> [state |-> "off", items |-> << >>]]
NothingYet == [kind |-> "none", value |-> [t |-> "null", s |-> << >>, o |-> << >>]]
ExtractorOff ==
    /\ mcp_result = NotCalled
    /\ extracted = NothingYet

\* ----------------------------------------------------------- content parts
TextPart(t) == [type |-> "text", text |-> t]
ToolUsePart(id, name, input) == [type |-> "tool_use", id |-> id, name |-> name, input |-> input]
ToolResultPart(id, payload) == [type |-> "tool_result", tool_use_id |-> id, content |-> payload]
PlainPart(t) == [type |-> "str", text |-> t]    \* a message whose content is a plain string
OtherBlock == [type |-> "other"]                \* a block with neither text nor name/input

UserText(t) == [role |-> "user", content |-> <<PlainPart(t)>>]

\* The blocks the model host can put at position i of a response, before it stamps
\* tool-use ids on them.  A text block is empty or holds the text of its position,
\* so that the texts of one response are pairwise different.
BlockShapes(i) ==
    {[type |-> "text", text |-> << >>], [type |-> "text", text |-> Letters[i]]}
    \cup {[type |-> "tool_use", name |-> r.name, input |-> r.input] : r \in ToolRequests}
    \cup {OtherBlock}

ResponseShapes ==
    UNION {{s \in [1..n -> UNION {BlockShapes(i) : i \in 1..n}] :
                \A i \in 1..n : s[i] \in BlockShapes(i)} : n \in 0..MaxParts}

\* Number of tool_use blocks among the first n blocks of s.
RECURSIVE ToolUsesUpTo(_, _)
ToolUsesUpTo(s, n) ==
    IF n = 0 THEN 0
    ELSE ToolUsesUpTo(s, n - 1) + (IF s[n].type = "tool_use" THEN 1 ELSE 0)

\* The model host gives every tool_use block an id that is unique in the run:
\* <<k, j>> for the j-th tool_use block of the k-th model call.
Stamp(shape, k) ==
    [i \in 1..Len(shape) |->
        IF shape[i].type = "tool_use"
        THEN ToolUsePart(<<k, ToolUsesUpTo(shape, i)>>, shape[i].name, shape[i].input)
        ELSE shape[i]]

\* ------------------------------------------------------------ pure helpers
\* "\n".join(parts)
RECURSIVE JoinLines(_)
JoinLines(parts) ==
    IF parts = << >> THEN << >>
    ELSE IF Len(parts) = 1 THEN parts[1]
    ELSE parts[1] \o NL \o JoinLines(Tail(parts))

\* hasattr(content, 'text') and content.text
IsTextBlock(b) == b.type = "text" /\ b.text # << >>

\* hasattr(content, 'name') and hasattr(content, 'input')
IsToolUseBlock(b) == b.type = "tool_use"

\* Variant: only the status code is looked for.
IsRateLimit429Only(e) == e.has429

\* "429" in str(e) or "rate limit" in str(e).lower()
IsRateLimit(e) == e.has429 \/ e.hasRateLimitWords

\* Variant: the parsing loop keeps the last tool_use block it meets.
LastToolUse(resp) ==
    IF \E i \in 1..Len(resp) : IsToolUseBlock(resp[i])
    THEN CHOOSE i \in 1..Len(resp) :
            /\ IsToolUseBlock(resp[i])
            /\ \A j \in (i + 1)..Len(resp) : ~IsToolUseBlock(resp[j])
    ELSE 0

\* Index of the first tool_use block of a response, 0 when it has none: the block
\* at which the parsing loop breaks.
FirstToolUse(resp) ==
    IF \E i \in 1..Len(resp) : IsToolUseBlock(resp[i])
    THEN CHOOSE i \in 1..Len(resp) :
            /\ IsToolUseBlock(resp[i])
            /\ \A j \in 1..(i - 1) : ~IsToolUseBlock(resp[j])
    ELSE 0

\* Variant: the parsing loop has no break.
VisitedAll(resp) == resp

\* The blocks the parsing loop visits: all of them, or those up to its break.
Visited(resp) ==
    IF FirstToolUse(resp) = 0 THEN resp ELSE SubSeq(resp, 1, FirstToolUse(resp))

\* What the parsing loop appends to assistant_message["content"] for one block.
Recorded(b) ==
    IF IsTextBlock(b) THEN TextPart(b.text)
    ELSE ToolUsePart(b.id, b.name, b.input)

\* assistant_message["content"] after the parsing loop.
AssistantContent(resp) ==
    LET kept == SelectSeq(Visited(resp), LAMBDA b : IsTextBlock(b) \/ IsToolUseBlock(b))
    IN  [i \in 1..Len(kept) |-> Recorded(kept[i])]

\* text_parts of a response: the text of every block with a non-empty text.
TextsOf(resp) ==
    LET kept == SelectSeq(resp, IsTextBlock)
    IN  [i \in 1..Len(kept) |-> kept[i].text]

\* Variant: "".join(text_parts)
RECURSIVE Glue(_)
Glue(parts) == IF parts = << >> THEN << >> ELSE Head(parts) \o Glue(Tail(parts))
FinalTextGlued(resp) == Glue(TextsOf(resp))

\* final_response = "\n".join(text_parts)
FinalText(resp) == JoinLines(TextsOf(resp))

\* text_parts of the rate-limit branch: the text parts of the assistant messages
\* of the conversation, in conversation order.
RECURSIVE SalvageTexts(_)
SalvageTexts(conv) ==
    IF conv = << >> THEN << >>
    ELSE (IF Head(conv).role = "assistant"
          THEN LET kept == SelectSeq(Head(conv).content, LAMBDA c : c.type = "text")
               IN  [i \in 1..Len(kept) |-> kept[i].text]
          ELSE << >>)
         \o SalvageTexts(Tail(conv))

\* Variant: only the first text part is returned.
SalvageAnswerFirstOnly(conv) ==
    IF SalvageTexts(conv) # << >> THEN SalvageTexts(conv)[1]
    ELSE RATE_LIMIT_APOLOGY

\* What the rate-limit branch returns.
SalvageAnswer(conv) ==
    IF SalvageTexts(conv) # << >> THEN JoinLines(SalvageTexts(conv))
    ELSE RATE_LIMIT_APOLOGY

\* Any tool_result part in a user message whose content is a list of parts.
HasToolResult(conv) ==
    \E m \in 1..Len(conv) :
        /\ conv[m].role = "user"
        /\ \E p \in 1..Len(conv[m].content) : conv[m].content[p].type = "tool_result"

\* Variant: has_data is set whatever the conversation holds.
HasDataAlways(conv) == TRUE

\* has_data after the two scans that follow the loop.  The first scan looks for a
\* tool_result whose JSON holds one of columns/data/rows/databases/tables, the
\* second for any tool_result at all: what the first finds the second finds too.
HasData(conv) == HasToolResult(conv)

ToolResultMessage(id, payload) ==
    [role |-> "user", content |-> <<ToolResultPart(id, payload)>>]

\* Variant: the tool result is appended twice.
AppendToolSuccessTwice(conv, am, id, payload) ==
    conv \o <<am, ToolResultMessage(id, payload), ToolResultMessage(id, payload)>>

\* The two appends of the try block, both reached.
AppendToolSuccess(conv, am, id, payload) ==
    conv \o <<am, ToolResultMessage(id, payload)>>

\* Variant: the except block appends the assistant message only.
AppendToolFailureNoResult(conv, am, id) == Append(conv, am)

\* The two appends of the except block.
AppendToolFailure(conv, am, id) ==
    conv \o <<am, ToolResultMessage(id, "error")>>

\* Variant: current_messages = messages, one list under two names.
CallerListShared(passed, own) == own

\* current_messages = messages.copy(): the list of the caller is another list than
\* the one the run appends to, so after an append that makes the run's list own the
\* caller's list is still passed.
CallerList(passed, own) == passed

\* Variant: the conversation is cut back to the question before the appends.
AfterToolFromQuestion(conv, am, id, o) ==
    <<Head(conv), am, ToolResultMessage(id, o)>>

\* The conversation after the tool branch of one iteration, by tool outcome.
AfterTool(conv, am, id, o) ==
    CASE o = "value"  -> AppendToolSuccess(conv, am, id, "value")
      [] o = "raise"  -> AppendToolFailure(conv, am, id)
      \* line 282 has run when json.dumps raises at line 288
      [] o = "nojson" -> AppendToolFailure(Append(conv, am), am, id)

Init ==
    /\ maxIterations \in 0..MaxIter
    /\ \E question \in Questions : messages = <<UserText(question)>>
    /\ current_messages = messages
    /\ iteration = 0
    /\ pc = "loop"
    /\ response = << >>
    /\ assistant_message = [role |-> "assistant", content |-> << >>]
    /\ tool_use_id = << >>
    /\ calls = << >>
    /\ toolCalls = << >>
    /\ toolReturns = << >>
    /\ modelReturns = 0
    /\ failure = [at |-> "none"]
    /\ exit = "running"
    /\ outcome = [kind |-> "none"]
    /\ PollerOff
    /\ NoRuns
    /\ ServerOff
    /\ ExtractorOff

\* Variant: range(max_iterations + 1).
LoopContinuesInclusive == iteration <= maxIterations

\* for iteration in range(max_iterations): the loop body is entered
LoopContinues == iteration < maxIterations

Return(how, text) ==
    /\ pc' = "done"
    /\ exit' = how
    /\ outcome' = [kind |-> "returned", value |-> text]

Raise(e) ==
    /\ pc' = "done"
    /\ exit' = "raised"
    /\ outcome' = [kind |-> "raised", error |-> e]

\* client.messages.create(..., messages=current_messages, tools=tool_definitions)
IssueModelCall ==
    /\ pc = "loop"
    /\ LoopContinues
    /\ calls' = Append(calls, [tools |-> TRUE, nmessages |-> Len(current_messages)])
    /\ pc' = "awaitModel"
    /\ UNCHANGED <<maxIterations, messages, current_messages, iteration, response,
                   assistant_message, tool_use_id, toolCalls, toolReturns, modelReturns,
                   failure, exit, outcome>>
    /\ UNCHANGED <<pollVars, runs, queryVars, extractVars>>

\* The model call of the loop raises: a rate-limit error is answered from the
\* conversation, any other error is re-raised.
ModelFails ==
    /\ pc = "awaitModel"
    /\ \E e \in Errors :
          /\ failure' = [at |-> "loop", error |-> e]
          /\ IF IsRateLimit(e)
             THEN Return(IF SalvageTexts(current_messages) # << >> THEN "salvaged" ELSE "apology",
                         SalvageAnswer(current_messages))
             ELSE Raise(e)
    /\ modelReturns' = modelReturns + 1
    /\ UNCHANGED <<maxIterations, messages, current_messages, iteration, response,
                   assistant_message, tool_use_id, calls, toolCalls, toolReturns>>
    /\ UNCHANGED <<pollVars, runs, queryVars, extractVars>>

\* Variant: the tool call is started without being awaited, the loop goes on at once.
ModelRespondsNoAwait ==
    /\ pc = "awaitModel"
    /\ \E shape \in ResponseShapes :
          LET resp == Stamp(shape, Len(calls))
              first == FirstToolUse(resp)
          IN  /\ response' = resp
              /\ assistant_message' = [role |-> "assistant", content |-> AssistantContent(resp)]
              /\ IF first = 0
                 THEN /\ Return("answered", FinalText(resp))
                      /\ UNCHANGED <<tool_use_id, toolCalls, iteration>>
                 ELSE /\ tool_use_id' = resp[first].id
                      /\ toolCalls' = Append(toolCalls,
                            [id |-> resp[first].id, name |-> resp[first].name,
                             input |-> resp[first].input])
                      /\ iteration' = iteration + 1
                      /\ pc' = "loop"
                      /\ UNCHANGED <<exit, outcome>>
    /\ modelReturns' = modelReturns + 1
    /\ UNCHANGED <<maxIterations, messages, current_messages, calls, toolReturns, failure>>
    /\ UNCHANGED <<pollVars, runs, queryVars, extractVars>>

\* The model call of the loop returns: the response is parsed, and either the run
\* returns its text or the first tool use is dispatched with session.call_tool.
ModelResponds ==
    /\ pc = "awaitModel"
    /\ \E shape \in ResponseShapes :
          LET resp == Stamp(shape, Len(calls))
              first == FirstToolUse(resp)
          IN  /\ response' = resp
              /\ assistant_message' = [role |-> "assistant", content |-> AssistantContent(resp)]
              /\ IF first = 0
                 THEN /\ Return("answered", FinalText(resp))
                      /\ UNCHANGED <<tool_use_id, toolCalls>>
                 ELSE /\ tool_use_id' = resp[first].id
                      /\ toolCalls' = Append(toolCalls,
                            [id |-> resp[first].id, name |-> resp[first].name,
                             input |-> resp[first].input])
                      /\ pc' = "awaitTool"
                      /\ UNCHANGED <<exit, outcome>>
    /\ modelReturns' = modelReturns + 1
    /\ UNCHANGED <<maxIterations, messages, current_messages, iteration, calls,
                   toolReturns, failure>>
    /\ UNCHANGED <<pollVars, runs, queryVars, extractVars>>

\* Variant: there is no except block around the tool call, a failure leaves the run.
ToolReturnsPropagates ==
    /\ pc = "awaitTool"
    /\ \E o \in ToolOutcomes :
          /\ toolReturns' = Append(toolReturns, o)
          /\ IF o = "value"
             THEN /\ current_messages' =
                        AppendToolSuccess(current_messages, assistant_message, tool_use_id, o)
                  /\ iteration' = iteration + 1
                  /\ pc' = "loop"
                  /\ UNCHANGED <<exit, outcome>>
             ELSE /\ pc' = "done"
                  /\ exit' = "raised"
                  /\ outcome' = [kind |-> "raised", error |-> o]
                  /\ UNCHANGED <<current_messages, iteration>>
    /\ response' = << >>
    /\ UNCHANGED <<maxIterations, messages, assistant_message, tool_use_id,
                   calls, toolCalls, modelReturns, failure>>
    /\ UNCHANGED <<pollVars, runs, queryVars, extractVars>>

\* session.call_tool and extract_tool_result come back (or raise); the assistant
\* message and the tool result are appended, and the loop continues.
ToolReturns ==
    /\ pc = "awaitTool"
    /\ \E o \in ToolOutcomes :
          /\ current_messages' = AfterTool(current_messages, assistant_message, tool_use_id, o)
          /\ toolReturns' = Append(toolReturns, o)
    /\ iteration' = iteration + 1
    /\ pc' = "loop"
    /\ messages' = CallerList(messages, current_messages')
    \* response is not read again: the next iteration rebinds it before any use
    /\ response' = << >>
    /\ UNCHANGED <<maxIterations, assistant_message, tool_use_id,
                   calls, toolCalls, modelReturns, failure, exit, outcome>>
    /\ UNCHANGED <<pollVars, runs, queryVars, extractVars>>

\* The loop is exhausted and the conversation holds a tool result: the summary
\* request is appended and one more model call is issued, without tools.
IssueSummaryCall ==
    /\ pc = "loop"
    /\ ~LoopContinues
    /\ HasData(current_messages)
    /\ current_messages' = Append(current_messages, UserText(SUMMARY_REQUEST))
    /\ messages' = CallerList(messages, current_messages')
    /\ calls' = Append(calls, [tools |-> FALSE, nmessages |-> Len(current_messages')])
    /\ pc' = "awaitFinal"
    /\ UNCHANGED <<maxIterations, iteration, response, assistant_message,
                   tool_use_id, toolCalls, toolReturns, modelReturns, failure, exit, outcome>>
    /\ UNCHANGED <<pollVars, runs, queryVars, extractVars>>

\* The loop is exhausted and the conversation holds no tool result.
ExhaustedNoData ==
    /\ pc = "loop"
    /\ ~LoopContinues
    /\ ~HasData(current_messages)
    /\ Return("fallback", FALLBACK_SENTENCE)
    /\ UNCHANGED <<maxIterations, messages, current_messages, iteration, response,
                   assistant_message, tool_use_id, calls, toolCalls, toolReturns,
                   modelReturns, failure>>
    /\ UNCHANGED <<pollVars, runs, queryVars, extractVars>>

\* Variant: the joined text is returned even when there is none.
SummaryAnswerNoFallback(resp) == JoinLines(TextsOf(resp))

\* What the run returns for the response of the summarization call.
SummaryAnswer(resp) ==
    IF TextsOf(resp) # << >> THEN JoinLines(TextsOf(resp)) ELSE FALLBACK_SENTENCE

\* What the model host can answer to a call that offers no tools: a response
\* without tool_use block.
ToolFreeShapes == {s \in ResponseShapes : \A i \in 1..Len(s) : s[i].type # "tool_use"}

\* The summarization call returns.
FinalResponds ==
    /\ pc = "awaitFinal"
    /\ \E shape \in ToolFreeShapes :
          LET resp == Stamp(shape, Len(calls))
          IN  /\ response' = resp
              /\ Return(IF TextsOf(resp) # << >> THEN "summarized" ELSE "fallback",
                        SummaryAnswer(resp))
    /\ modelReturns' = modelReturns + 1
    /\ UNCHANGED <<maxIterations, messages, current_messages, iteration,
                   assistant_message, tool_use_id, calls, toolCalls, toolReturns, failure>>
    /\ UNCHANGED <<pollVars, runs, queryVars, extractVars>>

\* The summarization call raises: any exception is logged and swallowed.
FinalFails ==
    /\ pc = "awaitFinal"
    /\ \E e \in Errors :
          /\ failure' = [at |-> "summary", error |-> e]
          /\ Return("fallback", FALLBACK_SENTENCE)
    /\ modelReturns' = modelReturns + 1
    /\ UNCHANGED <<maxIterations, messages, current_messages, iteration, response,
                   assistant_message, tool_use_id, calls, toolCalls, toolReturns>>
    /\ UNCHANGED <<pollVars, runs, queryVars, extractVars>>

Next ==
    \/ IssueModelCall
    \/ ModelFails
    \/ ModelResponds
    \/ ToolReturns
    \/ IssueSummaryCall
    \/ ExhaustedNoData
    \/ FinalResponds
    \/ FinalFails

Spec == Init /\ [][Next]_vars

\* ============================================================ athena_results
MsPerSecond == 1000                             \* wait_ms/1000

\* The orchestration loop is not running.
OrchestratorOff ==
    /\ maxIterations = 0
    /\ messages = << >>
    /\ current_messages = << >>
    /\ iteration = 0
    /\ pc = "off"
    /\ response = << >>
    /\ assistant_message = [role |-> "assistant", content |-> << >>]
    /\ tool_use_id = << >>
    /\ calls = << >>
    /\ toolCalls = << >>
    /\ toolReturns = << >>
    /\ modelReturns = 0
    /\ failure = [at |-> "none"]
    /\ exit = "running"
    /\ outcome = [kind |-> "none"]

\* What a caller can pass for either identifier parameter.
QidArgs == {NONE, "", "qid-1"}

\* Variant: only None counts as missing.
TruthyUnlessNone(x) == x # NONE

\* Python truth of an identifier argument.
Truthy(x) == x \notin {NONE, ""}

\* qid = query_execution_id or queryExecutionId
Qid(a, b) == IF Truthy(a) THEN a ELSE b

\* The states Athena reports, terminal or not.
NonTerminal == {"QUEUED", "RUNNING"}
Terminal == {"SUCCEEDED", "FAILED", "CANCELLED"}

\* StateChangeReason of a QueryExecution: absent, or a text.
Reasons == {NONE, "SYNTAX_ERROR: line 1"}

\* The QueryExecution records the backend can report.
Executions ==
    {[State |-> st, StateChangeReason |-> NONE] : st \in NonTerminal \cup {"SUCCEEDED"}}
    \cup {[State |-> st, StateChangeReason |-> r] : st \in {"FAILED", "CANCELLED"}, r \in Reasons}

\* How a QueryExecution can change between two looks at it.
Successors(e) ==
    CASE e.State = "QUEUED"  -> {x \in Executions : x.State \in {"RUNNING", "FAILED", "CANCELLED"}}
      [] e.State = "RUNNING" -> {x \in Executions : x.State \in Terminal}
      [] OTHER               -> {}

\* Counters of calls stop counting at MaxCount: a call with wait_ms = 0 whose
\* status fetches take no time can fetch any number of times.
MaxCount == MaxWait + 3
Count(n) == IF n < MaxCount THEN n + 1 ELSE n

\* Variant: only FAILED ends the poll with an error.
IsFailureFailedOnly(st) == st = "FAILED"

\* st in ("FAILED","CANCELLED")
IsFailure(st) == st \in {"FAILED", "CANCELLED"}

\* What a backend call that does not answer raises (a botocore exception); the
\* function has no handler for it.
BackendError(call) == [kind |-> "ClientError", message |-> <<call>>]

\* Variant: the reason is left out of the message.
FailureMessageWithoutReason(e) == <<"Athena ", e.State, ": ">>

\* f"Athena {st}: {q['Status'].get('StateChangeReason','')}"
FailureMessage(e) ==
    <<"Athena ", e.State, ": ">>
        \o (IF e.StateChangeReason = NONE THEN << >> ELSE <<e.StateChangeReason>>)

\* Variant: the deadline is a second late.
TimedOutLate(t) == t - start > (max_wait_s + 1) * MsPerSecond

\* _t.time() - start > max_wait_s, with t = _t.time() in milliseconds
TimedOut(t) == t - start > max_wait_s * MsPerSecond

\* Variant: the sleep returns at once.
SleepForNothing(ms) == 0

\* How long _t.sleep(wait_ms/1000) suspends the call, in milliseconds.
SleepFor(ms) == ms

\* Row i of a result set: one cell.
Row(i) == <<[VarCharValue |-> i]>>

\* Variant: the backend is not given MaxResults.
GetQueryResultsUnlimited(avail, limit) == [i \in 1..avail |-> Row(i)]

\* athena.get_query_results(QueryExecutionId=qid, MaxResults=max_rows) on a result
\* set of avail rows, header row included: the first rows up to the limit.
GetQueryResults(avail, limit) ==
    [i \in 1..(IF avail < limit THEN avail ELSE limit) |-> Row(i)]

\* headers and data of lines 63-64.
Headers(rows) ==
    IF rows # << >> THEN [c \in 1..Len(rows[1]) |-> rows[1][c].VarCharValue] ELSE << >>
DataRows(rows) ==
    IF Len(rows) > 1
    THEN [i \in 1..(Len(rows) - 1) |->
              [c \in 1..Len(rows[i + 1]) |-> rows[i + 1][c].VarCharValue]]
    ELSE << >>

PollInit ==
    /\ OrchestratorOff
    /\ NoRuns
    /\ ExtractorOff
    /\ fn = "athena_results"
    /\ QueryOff
    /\ query_execution_id \in QidArgs
    /\ queryExecutionId \in QidArgs
    /\ max_rows \in 1..MaxRowsArg
    /\ wait_ms \in {i * MsPerSecond : i \in 0..MaxInterval}
    /\ max_wait_s \in 0..MaxWait
    /\ now = 0
    /\ start = 0
    /\ q = Unfetched
    /\ execution \in Executions
    /\ ppc = "call"
    /\ fetches = 0
    /\ sleeps = 0
    /\ resultFetches = 0
    /\ fetchSlow = FALSE
    /\ result = [kind |-> "none"]

\* Lines 44-49: the identifier is resolved and checked, the clock is read.
ResolveQid ==
    /\ ppc = "call"
    /\ IF ~Truthy(Qid(query_execution_id, queryExecutionId))
       THEN /\ result' = [kind |-> "ValueError",
                          message |-> <<"Provide query_execution_id (or queryExecutionId).">>]
            /\ ppc' = "done"
            /\ UNCHANGED start
       ELSE /\ start' = now
            /\ ppc' = "poll"
            /\ UNCHANGED result
    /\ UNCHANGED <<query_execution_id, queryExecutionId, max_rows, wait_ms, max_wait_s, now,
                   q, execution, fetches, sleeps, resultFetches, fetchSlow>>
    /\ UNCHANGED <<orchVars, runs, queryVars, extractVars>>

\* Variant: the deadline is looked at before the fetched state.
PollOnceDeadlineFirst ==
    /\ ppc = "poll"
    /\ \E d \in 0..MaxFetchTime, answered \in BOOLEAN :
          LET t == now + d * MsPerSecond
          IN  /\ now' = t
              /\ fetches' = Count(fetches)
              /\ fetchSlow' = (fetchSlow \/ d > 0)
              /\ q' = IF answered THEN execution ELSE q
              /\ IF ~answered
                 THEN /\ result' = BackendError("get_query_execution")
                      /\ ppc' = "done"
                 ELSE IF TimedOut(t)
                 THEN /\ result' = [kind |-> "TimeoutError",
                                    message |-> <<"Athena query timed out">>]
                      /\ ppc' = "done"
                 ELSE IF execution.State = "SUCCEEDED"
                 THEN /\ ppc' = "results"
                      /\ UNCHANGED result
                 ELSE IF IsFailure(execution.State)
                 THEN /\ result' = [kind |-> "RuntimeError", message |-> FailureMessage(execution)]
                      /\ ppc' = "done"
                 ELSE /\ ppc' = "sleep"
                      /\ UNCHANGED result
    /\ UNCHANGED <<query_execution_id, queryExecutionId, max_rows, wait_ms, max_wait_s,
                   start, execution, sleeps, resultFetches>>
    /\ UNCHANGED <<orchVars, runs, queryVars, extractVars>>

\* Lines 51-58: one status fetch, which takes d seconds and either is answered or
\* raises, and what the loop does with the state it reports, up to the call of
\* _t.sleep.
PollOnce ==
    /\ ppc = "poll"
    /\ \E d \in 0..MaxFetchTime, answered \in BOOLEAN :
          LET t == now + d * MsPerSecond
          IN  /\ now' = t
              /\ fetches' = Count(fetches)
              /\ fetchSlow' = (fetchSlow \/ d > 0)
              /\ q' = IF answered THEN execution ELSE q
              /\ IF ~answered
                 THEN /\ result' = BackendError("get_query_execution")
                      /\ ppc' = "done"
                 ELSE IF execution.State = "SUCCEEDED"
                 THEN /\ ppc' = "results"
                      /\ UNCHANGED result
                 ELSE IF IsFailure(execution.State)
                 THEN /\ result' = [kind |-> "RuntimeError", message |-> FailureMessage(execution)]
                      /\ ppc' = "done"
                 ELSE IF TimedOut(t)
                 THEN /\ result' = [kind |-> "TimeoutError",
                                    message |-> <<"Athena query timed out">>]
                      /\ ppc' = "done"
                 ELSE /\ ppc' = "sleep"
                      /\ UNCHANGED result
    /\ UNCHANGED <<query_execution_id, queryExecutionId, max_rows, wait_ms, max_wait_s,
                   start, execution, sleeps, resultFetches>>
    /\ UNCHANGED <<orchVars, runs, queryVars, extractVars>>

\* Line 59: _t.sleep returns.
Wake ==
    /\ ppc = "sleep"
    /\ now' = now + SleepFor(wait_ms)
    /\ sleeps' = Count(sleeps)
    /\ ppc' = "poll"
    /\ UNCHANGED <<query_execution_id, queryExecutionId, max_rows, wait_ms, max_wait_s,
                   start, q, execution, fetches, resultFetches, fetchSlow, result>>
    /\ UNCHANGED <<orchVars, runs, queryVars, extractVars>>

\* Lines 61-65: the results are fetched and returned, or the fetch raises.
FetchResults ==
    /\ ppc = "results"
    /\ \E avail \in 0..(MaxRowsArg + 2), answered \in BOOLEAN :
          LET rows == GetQueryResults(avail, max_rows)
          IN  result' = IF answered
                        THEN [kind |-> "returned",
                              value |-> [columns |-> Headers(rows), rows |-> DataRows(rows)]]
                        ELSE BackendError("get_query_results")
    /\ resultFetches' = Count(resultFetches)
    /\ ppc' = "done"
    /\ UNCHANGED <<query_execution_id, queryExecutionId, max_rows, wait_ms, max_wait_s, now,
                   start, q, execution, fetches, sleeps, fetchSlow>>
    /\ UNCHANGED <<orchVars, runs, queryVars, extractVars>>

\* The remote query execution changes state while the call is in progress.
ExecutionAdvances ==
    /\ ppc \in {"call", "poll", "sleep"}
    /\ execution' \in Successors(execution)
    /\ UNCHANGED <<query_execution_id, queryExecutionId, max_rows, wait_ms, max_wait_s, now,
                   start, q, ppc, fetches, sleeps, resultFetches, fetchSlow, result>>
    /\ UNCHANGED <<orchVars, runs, queryVars, extractVars>>

PollNext ==
    \/ ResolveQid
    \/ PollOnce
    \/ Wake
    \/ FetchResults
    \/ ExecutionAdvances

PollSpec == PollInit /\ [][PollNext]_vars

\* The call runs on: each step of the function is eventually taken.  Nothing is
\* assumed of the remote execution.
PollFairSpec ==
    PollSpec /\ WF_vars(ResolveQid) /\ WF_vars(PollOnce) /\ WF_vars(Wake) /\ WF_vars(FetchResults)

\* A status fetch during which the wall clock moves.
SlowFetch == PollOnce /\ now' > now

\* The call runs on and wall-clock time keeps advancing: of the status fetches of a
\* call that goes on fetching, some take time.
PollAdvancingSpec == PollFairSpec /\ SF_vars(SlowFetch)

\* ==================================================== athena_query, athena_status
\* A statement is a sequence of characters.  The letters, and what re.I takes for
\* the same letter: the other case, and for s also the long s U+017F.
LowerCase == <<"a", "b", "c", "d", "e", "f", "g", "h", "i", "j", "k", "l", "m", "n", "o", "p", "q", "r", "s", "t", "u", "v", "w", "x", "y", "z">>
UpperCase == <<"A", "B", "C", "D", "E", "F", "G", "H", "I", "J", "K", "L", "M", "N", "O", "P", "Q", "R", "S", "T", "U", "V", "W", "X", "Y", "Z">>
Digits == {"0", "1", "2", "3", "4", "5", "6", "7", "8", "9"}

\* Variant: the pattern is compiled without re.I.
FoldNothing(c) == c

\* The upper-case letter a character matches under re.I, the character itself
\* when it is no letter.
Fold(c) ==
    IF c = "U+017F" THEN "S"
    ELSE IF \E i \in 1..Len(LowerCase) : LowerCase[i] = c
    THEN UpperCase[CHOOSE i \in 1..Len(LowerCase) : LowerCase[i] = c]
    ELSE c

\* \w: letters, digits and the underscore.
IsWordChar(c) ==
    \/ c \in Digits \cup {"_", "U+017F"}
    \/ \E i \in 1..Len(LowerCase) : c \in {LowerCase[i], UpperCase[i]}

\* \b at position p of s, between s[p - 1] and s[p].
AtWordBoundary(s, p) ==
    (p > 1 /\ IsWordChar(s[p - 1])) # (p <= Len(s) /\ IsWordChar(s[p]))

\* The alternatives of SQL_BLOCK.
SQL_BLOCK ==
    {<<"I", "N", "S", "E", "R", "T">>,
     <<"U", "P", "D", "A", "T", "E">>,
     <<"D", "E", "L", "E", "T", "E">>,
     <<"D", "R", "O", "P">>,
     <<"A", "L", "T", "E", "R">>,
     <<"T", "R", "U", "N", "C", "A", "T", "E">>,
     <<"C", "R", "E", "A", "T", "E">>,
     <<"M", "S", "C", "K">>,
     <<"G", "R", "A", "N", "T">>,
     <<"R", "E", "V", "O", "K", "E">>}

\* SQL_BLOCK.search(sql) finds a match.
SqlBlockSearch(s) ==
    \E k \in SQL_BLOCK, i \in 1..Len(s) :
        /\ i + Len(k) - 1 <= Len(s)
        /\ \A j \in 1..Len(k) : Fold(s[i + j - 1]) = k[j]
        /\ AtWordBoundary(s, i)
        /\ AtWordBoundary(s, i + Len(k))

\* The pieces the statements of the model are put together from: each blocked
\* word in some letter case, other words, a letter, an underscore and a blank.
SqlPieces ==
    {<<"I", "N", "S", "E", "R", "T">>,
     <<"u", "p", "d", "a", "t", "e">>,
     <<"D", "e", "l", "e", "t", "e">>,
     <<"d", "R", "o", "P">>,
     <<"A", "L", "T", "E", "R">>,
     <<"t", "r", "u", "n", "c", "a", "t", "e">>,
     <<"C", "r", "e", "a", "t", "e">>,
     <<"M", "S", "C", "K">>,
     <<"g", "r", "a", "n", "t">>,
     <<"R", "E", "V", "O", "K", "E">>,
     <<"S", "E", "L", "E", "C", "T">>,
     <<"S", "H", "O", "W">>,
     <<"i", "n", "U+017F", "e", "r", "t">>,
     <<"_">>,
     <<" ">>}

RECURSIVE Flatten(_)
Flatten(ps) == IF ps = << >> THEN << >> ELSE Head(ps) \o Flatten(Tail(ps))

\* The statements a caller can pass: up to MaxPieces pieces in a row.
Statements == {Flatten(ps) : ps \in UNION {[1..n -> SqlPieces] : n \in 0..MaxPieces}}

\* One tool of the server is called: athena_results as in PollInit, athena_status
\* with its two identifier parameters, or athena_query with a statement.
ServerInit ==
    \/ PollInit
    \/ /\ OrchestratorOff
       /\ NoRuns
       /\ ExtractorOff
       /\ fn = "athena_status"
       /\ QueryOff
       /\ query_execution_id \in QidArgs
       /\ queryExecutionId \in QidArgs
       /\ max_rows = 0
       /\ wait_ms = 0
       /\ max_wait_s = 0
       /\ now = 0
       /\ start = 0
       /\ q = Unfetched
       /\ execution \in Executions
       /\ ppc = "status"
       /\ fetches = 0
       /\ sleeps = 0
       /\ resultFetches = 0
       /\ fetchSlow = FALSE
       /\ result = [kind |-> "none"]
    \/ /\ OrchestratorOff
       /\ NoRuns
       /\ ExtractorOff
       /\ fn = "athena_query"
       /\ sql \in Statements
       /\ started = << >>
       /\ query_execution_id = NONE
       /\ queryExecutionId = NONE
       /\ max_rows = 0
       /\ wait_ms = 0
       /\ max_wait_s = 0
       /\ now = 0
       /\ start = 0
       /\ q = Unfetched
       /\ execution = Unfetched
       /\ ppc = "query"
       /\ fetches = 0
       /\ sleeps = 0
       /\ resultFetches = 0
       /\ fetchSlow = FALSE
       /\ result = [kind |-> "none"]

\* athena_query, lines 23-30: the statement is searched for a blocked word, and is
\* passed to start_query_execution when none is found.
AthenaQuery ==
    /\ ppc = "query"
    /\ IF SqlBlockSearch(sql)
       THEN /\ result' = [kind |-> "ValueError", message |-> <<"Only SELECT/EXPLAIN allowed.">>]
            /\ UNCHANGED started
       ELSE /\ started' = Append(started, sql)
            /\ \E answered \in BOOLEAN :
                  result' = IF answered
                            THEN [kind |-> "returned", value |-> [query_execution_id |-> "qid-1"]]
                            ELSE BackendError("start_query_execution")
    /\ ppc' = "done"
    /\ UNCHANGED <<query_execution_id, queryExecutionId, max_rows, wait_ms, max_wait_s, now,
                   start, q, execution, fetches, sleeps, resultFetches, fetchSlow, fn, sql>>
    /\ UNCHANGED <<orchVars, runs, extractVars>>

\* athena_status, lines 72-79: the identifier is resolved and checked, and the
\* execution is fetched once.
AthenaStatus ==
    /\ ppc = "status"
    /\ IF ~Truthy(Qid(query_execution_id, queryExecutionId))
       THEN /\ result' = [kind |-> "ValueError",
                          message |-> <<"Provide query_execution_id (or queryExecutionId).">>]
            /\ UNCHANGED <<q, fetches>>
       ELSE /\ fetches' = Count(fetches)
            /\ \E answered \in BOOLEAN :
                  /\ q' = IF answered THEN execution ELSE q
                  /\ result' = IF answered
                               THEN [kind |-> "returned", value |-> [state |-> execution.State]]
                               ELSE BackendError("get_query_execution")
    /\ ppc' = "done"
    /\ UNCHANGED <<query_execution_id, queryExecutionId, max_rows, wait_ms, max_wait_s, now,
                   start, execution, sleeps, resultFetches, fetchSlow>>
    /\ UNCHANGED <<orchVars, runs, queryVars, extractVars>>

ServerNext ==
    \/ ResolveQid
    \/ PollOnce
    \/ Wake
    \/ FetchResults
    \/ ExecutionAdvances
    \/ AthenaQuery
    \/ AthenaStatus

ServerSpec == ServerInit /\ [][ServerNext]_vars

\* ======================================================= extract_tool_result
\* Texts are sequences of characters.  A decoded JSON value is a record: t is its
\* type, s the characters of a string (or the digits of a number), o the members
\* <<key, value>> of an object (a dict keeps one value per key) or the elements
\* <<<< >>, value>> of an array.
JNull == [t |-> "null", s |-> << >>, o |-> << >>]
JTrue == [t |-> "true", s |-> << >>, o |-> << >>]
JFalse == [t |-> "false", s |-> << >>, o |-> << >>]
JNumber(digits) == [t |-> "number", s |-> digits, o |-> << >>]
JString(chars) == [t |-> "string", s |-> chars, o |-> << >>]
JObject(members) == [t |-> "object", s |-> << >>, o |-> members]
JArray(elements) == [t |-> "array", s |-> << >>, o |-> elements]

\* key in d, d[key], and d[key] = v on the members of a dict.
HasKey(d, key) == d.t = "object" /\ \E i \in 1..Len(d.o) : d.o[i][1] = key
Get(d, key) == d.o[CHOOSE i \in 1..Len(d.o) : d.o[i][1] = key][2]
Put(members, key, v) ==
    IF \E i \in 1..Len(members) : members[i][1] = key
    THEN [i \in 1..Len(members) |->
             IF members[i][1] = key THEN <<key, v>> ELSE members[i]]
    ELSE Append(members, <<key, v>>)

\* json.loads: a recursive-descent reading of the characters.  A reading step gives
\* the value read and the position after it, or fails.  Fractions, exponents, NaN,
\* Infinity and the escapes \b, \f and \u are not read: no input holds them.
Parsed(v, n) == [ok |-> TRUE, v |-> v, n |-> n]
Failed == [ok |-> FALSE, v |-> JNull, n |-> 0]
Whitespace == {" ", "\t", "\n", "\r"}

RECURSIVE SkipWs(_, _)
SkipWs(s, p) == IF p <= Len(s) /\ s[p] \in Whitespace THEN SkipWs(s, p + 1) ELSE p

StartsWith(s, p, w) == p + Len(w) - 1 <= Len(s) /\ SubSeq(s, p, p + Len(w) - 1) = w

Unescaped(c) ==
    CASE c = "n" -> "\n"
      [] c = "t" -> "\t"
      [] c = "r" -> "\r"
      [] OTHER -> c

\* The characters of a string from position p to its closing quote, read one run
\* of plain characters at a time.
Special(c) == c \in {"\"", "\\", "\t", "\n", "\r"}

RECURSIVE ParseChars(_, _, _)
ParseChars(s, p, acc) ==
    IF \A n \in p..Len(s) : ~Special(s[n]) THEN Failed
    ELSE LET e == CHOOSE n \in p..Len(s) :
                      Special(s[n]) /\ \A m \in p..(n - 1) : ~Special(s[m])
             plain == acc \o SubSeq(s, p, e - 1)
         IN  IF s[e] = "\"" THEN Parsed(JString(plain), e + 1)
             ELSE IF s[e] = "\\"
                  THEN IF e + 1 <= Len(s) /\ s[e + 1] \in {"\"", "\\", "/", "n", "t", "r"}
                       THEN ParseChars(s, e + 2, Append(plain, Unescaped(s[e + 1])))
                       ELSE Failed
             ELSE Failed

RECURSIVE DigitsEnd(_, _)
DigitsEnd(s, p) == IF p <= Len(s) /\ s[p] \in Digits THEN DigitsEnd(s, p + 1) ELSE p

ParseNumber(s, p) ==
    LET b == IF s[p] = "-" THEN p + 1 ELSE p
        e == IF b <= Len(s) /\ s[b] = "0" THEN b + 1 ELSE DigitsEnd(s, b)
    IN  IF e = b THEN Failed ELSE Parsed(JNumber(SubSeq(s, p, e - 1)), e)

RECURSIVE ParseValue(_, _)
RECURSIVE ParseMembers(_, _, _)
RECURSIVE ParseElements(_, _, _)

ParseMembers(s, p, acc) ==
    LET a == SkipWs(s, p)
    IN  IF a > Len(s) \/ s[a] # "\"" THEN Failed
        ELSE LET k == ParseChars(s, a + 1, << >>)
             IN  IF ~k.ok THEN Failed
                 ELSE LET c == SkipWs(s, k.n)
                      IN  IF c > Len(s) \/ s[c] # ":" THEN Failed
                          ELSE LET v == ParseValue(s, SkipWs(s, c + 1))
                               IN  IF ~v.ok THEN Failed
                                   ELSE LET d == SkipWs(s, v.n)
                                            m == Put(acc, k.v.s, v.v)
                                        IN  IF d > Len(s) THEN Failed
                                            ELSE IF s[d] = "}" THEN Parsed(JObject(m), d + 1)
                                            ELSE IF s[d] = "," THEN ParseMembers(s, d + 1, m)
                                            ELSE Failed

ParseElements(s, p, acc) ==
    LET v == ParseValue(s, SkipWs(s, p))
    IN  IF ~v.ok THEN Failed
        ELSE LET d == SkipWs(s, v.n)
                 m == Append(acc, <<<< >>, v.v>>)
             IN  IF d > Len(s) THEN Failed
                 ELSE IF s[d] = "]" THEN Parsed(JArray(m), d + 1)
                 ELSE IF s[d] = "," THEN ParseElements(s, d + 1, m)
                 ELSE Failed

ParseValue(s, p) ==
    IF p > Len(s) THEN Failed
    ELSE IF s[p] = "{"
         THEN LET a == SkipWs(s, p + 1)
              IN  IF a <= Len(s) /\ s[a] = "}" THEN Parsed(JObject(<< >>), a + 1)
                  ELSE ParseMembers(s, a, << >>)
    ELSE IF s[p] = "["
         THEN LET a == SkipWs(s, p + 1)
              IN  IF a <= Len(s) /\ s[a] = "]" THEN Parsed(JArray(<< >>), a + 1)
                  ELSE ParseElements(s, a, << >>)
    ELSE IF s[p] = "\"" THEN ParseChars(s, p + 1, << >>)
    ELSE IF StartsWith(s, p, <<"n", "u", "l", "l">>) THEN Parsed(JNull, p + 4)
    ELSE IF StartsWith(s, p, <<"t", "r", "u", "e">>) THEN Parsed(JTrue, p + 4)
    ELSE IF StartsWith(s, p, <<"f", "a", "l", "s", "e">>) THEN Parsed(JFalse, p + 5)
    ELSE IF s[p] \in Digits \cup {"-"} THEN ParseNumber(s, p)
    ELSE Failed

\* json.loads(s): the value, or JSONDecodeError when no value is read or characters
\* other than whitespace follow it.
JsonLoads(s) ==
    LET r == ParseValue(s, SkipWs(s, 1))
    IN  IF r.ok /\ SkipWs(s, r.n) > Len(s)
        THEN [ok |-> TRUE, v |-> r.v]
        ELSE [ok |-> FALSE, v |-> JNull]

\* The outcome of a piece of code: a returned value, a raised exception (value is
\* str(e)), or nothing returned (the loop goes on to the next item).
Returned(v) == [kind |-> "returned", value |-> v]
Raised(message) == [kind |-> "raised", value |-> JString(message)]
NextItem == [kind |-> "skip", value |-> JNull]

KeyText == <<"t", "e", "x", "t">>
KeyError == <<"e", "r", "r", "o", "r">>
NoContentFound == <<"N", "o", " ", "c", "o", "n", "t", "e", "n", "t", " ", "f", "o", "u", "n", "d">>
DecodeErrorMessage == <<"E", "x", "p", "e", "c", "t", "i", "n", "g", " ", "v", "a", "l", "u", "e">>
AccessorErrorMessage == <<"a", "c", "c", "e", "s", "s", "o", "r", " ", "f", "a", "i", "l", "e", "d">>
NotIterableMessage == <<"'", "N", "o", "n", "e", "T", "y", "p", "e", "'", " ", "o", "b", "j", "e", "c", "t", " ", "i", "s", " ", "n", "o", "t", " ", "i", "t", "e", "r", "a", "b", "l", "e">>

\* Variant: no object counts as one with a text string.
HasNoTextString(v) == FALSE

\* isinstance(v, dict) and 'text' in v and isinstance(v['text'], str)
HasTextString(v) == HasKey(v, KeyText) /\ Get(v, KeyText).t = "string"

\* Variant: the raw text is returned as a bare string.
RawTextBare(text) == JString(text)

\* {"text": item.text}
RawTextObject(text) == JObject(<<<<KeyText, JString(text)>>>>)

\* The second decoding: the inner string's value when it decodes, else the outer
\* value.
PreferInner(outer) ==
    IF HasTextString(outer)
    THEN LET inner_parsed == JsonLoads(Get(outer, KeyText).s)
         IN  IF inner_parsed.ok THEN Returned(inner_parsed.v) ELSE Returned(outer)
    ELSE Returned(outer)

\* The loop body for one content item.  An attribute of an item is absent, present,
\* or an accessor that raises; attribute json is absent, falsy, a callable, a
\* truthy value, or a callable that raises.
ExtractItem(item) ==
    IF item.dump.state # "absent"
    THEN IF item.dump.state = "raises" THEN Raised(AccessorErrorMessage)
         ELSE LET dumped == JsonLoads(item.dump.text)
              IN  IF ~dumped.ok THEN Raised(DecodeErrorMessage)
                  ELSE PreferInner(dumped.v)
    ELSE IF item.json.state \in {"callable", "value", "raises"}
    THEN IF item.json.state = "raises" THEN Raised(AccessorErrorMessage)
         ELSE Returned(item.json.value)
    ELSE IF item.text.state = "raises" THEN Raised(AccessorErrorMessage)
    ELSE IF item.text.state = "present" /\ item.text.text # << >>
    THEN LET parsed == JsonLoads(item.text.text)
         IN  IF ~parsed.ok THEN Returned(RawTextObject(item.text.text))
             ELSE PreferInner(parsed.v)
    ELSE NextItem

RECURSIVE ExtractFrom(_, _)
ExtractFrom(items, i) ==
    IF i > Len(items) THEN Returned(JObject(<<<<KeyError, JString(NoContentFound)>>>>))
    ELSE LET r == ExtractItem(items[i])
         IN  IF r.kind = "skip" THEN ExtractFrom(items, i + 1) ELSE r

\* The body of the outer try.
ExtractBody(r) ==
    IF r.content.state = "absent"
    THEN Returned(JObject(<<<<KeyError, JString(NoContentFound)>>>>))
    ELSE IF r.content.state = "raises" THEN Raised(AccessorErrorMessage)
    ELSE IF r.content.state = "none" THEN Raised(NotIterableMessage)
    ELSE ExtractFrom(r.content.items, 1)

\* Variant: no outer except clause.
CatchNothing(body) == body

\* except Exception as e: return {"error": str(e)}
Catch(body) ==
    IF body.kind = "raised"
    THEN Returned(JObject(<<<<KeyError, body.value>>>>))
    ELSE body

ExtractToolResult(r) == Catch(ExtractBody(r))

\* ---- the raw tool responses
DecodeLevels == 2                               \* json.loads of the payload, then of its text

\* What a tool puts out: text that is not JSON, a JSON object, a JSON number, nothing.
Hello == <<"h", "e", "l", "l", "o">>
ObjectA == <<"{", "\"", "a", "\"", ":", "1", "}">>
FortyTwo == <<"4", "2">>
Payloads == {Hello, ObjectA, FortyTwo, << >>}

\* The characters of a text inside a JSON string.
Escaped(text) ==
    Flatten([i \in 1..Len(text) |->
                IF text[i] \in {"\"", "\\"} THEN <<"\\", text[i]>> ELSE <<text[i]>>])

\* A text wrapper around a text: {"text": "..."}
Wrap(text) ==
    <<"{", "\"", "t", "e", "x", "t", "\"", ":", " ", "\"">> \o Escaped(text) \o <<"\"", "}">>

\* What model_dump_json() of a text content item gives.
TextContentDump(text) ==
    <<"{", "\"", "t", "y", "p", "e", "\"", ":", "\"", "t", "e", "x", "t", "\"", ",", "\"", "t", "e", "x", "t", "\"", ":", "\"">> \o Escaped(text)
        \o <<"\"", ",", "\"", "a", "n", "n", "o", "t", "a", "t", "i", "o", "n", "s", "\"", ":", "n", "u", "l", "l", ",", "\"", "m", "e", "t", "a", "\"", ":", "n", "u", "l", "l", "}">>

RECURSIVE Wrapped(_, _)
Wrapped(text, n) == IF n = 0 THEN text ELSE Wrap(Wrapped(text, n - 1))

Texts == {Wrapped(p, n) : p \in Payloads, n \in 0..DecodeLevels}

Absent == [state |-> "absent", text |-> << >>]
Holds(text) == [state |-> "present", text |-> text]
Raises == [state |-> "raises", text |-> << >>]
JsonAbsent == [state |-> "absent", value |-> JNull]
JsonFalsy == [state |-> "falsy", value |-> JNull]
JsonRaises == [state |-> "raises", value |-> JNull]
JsonCallable(v) == [state |-> "callable", value |-> v]
JsonValue(v) == [state |-> "value", value |-> v]

\* The content items: text content items of the MCP library, items with only
\* model_dump_json, items with only json, items with only text, items with none of
\* the three, and items whose accessors raise.
Items ==
    {[dump |-> Holds(TextContentDump(t)),
      json |-> JsonCallable(JString(TextContentDump(t))),
      text |-> Holds(t)] : t \in Texts}
    \cup {[dump |-> Holds(t), json |-> JsonAbsent, text |-> Absent] : t \in Texts}
    \cup {[dump |-> Raises, json |-> JsonAbsent, text |-> Absent]}
    \cup {[dump |-> Absent, json |-> j, text |-> Absent] :
            j \in {JsonRaises,
                   JsonCallable(JString(Wrap(ObjectA))),
                   JsonValue(JObject(<<<<KeyText, JString(ObjectA)>>>>))}}
    \cup {[dump |-> Absent, json |-> JsonAbsent, text |-> Holds(t)] : t \in Texts}
    \cup {[dump |-> Absent, json |-> JsonFalsy, text |-> Holds(Hello)],
          [dump |-> Absent, json |-> JsonAbsent, text |-> Absent],
          [dump |-> Absent, json |-> JsonAbsent, text |-> Raises]}

Responses ==
    {[content |-> [state |-> st, items |-> << >>]] : st \in {"absent", "none", "raises"}}
    \cup {[content |-> [state |-> "present", items |-> items]] :
            items \in UNION {[1..n -> Items] : n \in 0..MaxItems}}

\* extract_tool_result is called with one raw response.
ExtractInit ==
    /\ OrchestratorOff
    /\ PollerOff
    /\ NoRuns
    /\ ServerOff
    /\ mcp_result \in Responses
    /\ extracted = NothingYet

ExtractCall ==
    /\ mcp_result # NotCalled
    /\ extracted.kind = "none"
    /\ extracted' = ExtractToolResult(mcp_result)
    /\ UNCHANGED mcp_result
    /\ UNCHANGED <<orchVars, pollVars, runs, queryVars>>

ExtractNext == ExtractCall

ExtractSpec == ExtractInit /\ [][ExtractNext]_vars

\* ================================================================== claims
\* Positions <<m, p>> of the parts of a conversation with a given type.
PartsOfType(conv, type) ==
    {mp \in UNION {{<<m, p>> : p \in 1..Len(conv[m].content)} : m \in 1..Len(conv)} :
        conv[mp[1]].content[mp[2]].type = type}

\* Position a comes before position b in the conversation.
Before(a, b) == a[1] < b[1] \/ (a[1] = b[1] /\ a[2] < b[2])

\* A model call is in flight: the conversation is the one handed to the model.
AtModelCall == pc \in {"awaitModel", "awaitFinal"}

\* C1: one run issues at most maxIterations + 1 model calls, the summarization
\* call included, whatever the model and the tools do.
C1_ModelCallBound == Len(calls) <= maxIterations + 1

C1_Witness ==
    /\ pc = "done"
    /\ maxIterations >= 1
    /\ Len(calls) = maxIterations + 1

\* C2: every run that returns, returns a non-empty string.
C2_ReturnsNonEmpty ==
    outcome.kind = "returned" => outcome.value # << >>

\* C3: at every model call, every ToolUse part of the conversation is followed by
\* exactly one ToolResult part with its id, whether the tool succeeded or failed.
C3_ToolUseAnswered ==
    AtModelCall =>
        \A u \in PartsOfType(current_messages, "tool_use") :
            Cardinality({r \in PartsOfType(current_messages, "tool_result") :
                /\ Before(u, r)
                /\ current_messages[r[1]].content[r[2]].tool_use_id
                      = current_messages[u[1]].content[u[2]].id}) = 1

C3_Witness ==
    /\ AtModelCall
    /\ \E r \in PartsOfType(current_messages, "tool_result") :
          current_messages[r[1]].content[r[2]].content = "error"
    /\ \E r \in PartsOfType(current_messages, "tool_result") :
          current_messages[r[1]].content[r[2]].content = "value"

\* C4: when a run has completed, its conversation holds as many ToolResult parts
\* as the run dispatched tool invocations.
C4_ResultsEqualDispatches ==
    pc = "done" =>
        Cardinality(PartsOfType(current_messages, "tool_result")) = Len(toolCalls)

C4_Witness ==
    /\ pc = "done"
    /\ Len(toolCalls) = 2
    /\ \E r \in PartsOfType(current_messages, "tool_result") :
          current_messages[r[1]].content[r[2]].content = "error"

\* Indices of the tool_use blocks of a response.
ToolUseIndices(resp) == {i \in 1..Len(resp) : resp[i].type = "tool_use"}

\* Smallest element of a non-empty set of integers.
Least(S) == CHOOSE i \in S : \A j \in S : i <= j

\* C5: a response with ToolUse parts makes the run dispatch exactly one tool
\* invocation before its next model call, with the name and input of the first
\* ToolUse part; no later ToolUse part of any response is dispatched.
C5_FirstToolUseDispatched ==
    /\ pc = "awaitTool" =>
          /\ ToolUseIndices(response) # {}
          /\ Len(toolCalls) = Len(calls)
          /\ LET b == response[Least(ToolUseIndices(response))]
             IN  toolCalls[Len(toolCalls)] = [id |-> b.id, name |-> b.name, input |-> b.input]
    /\ pc \in {"loop", "awaitModel"} => Len(toolCalls) = iteration
    /\ Len(toolCalls) <= Len(calls)
    /\ \A j \in 1..Len(toolCalls) : toolCalls[j].id = <<j, 1>>

C5_Witness ==
    /\ pc = "awaitTool"
    /\ Cardinality(ToolUseIndices(response)) >= 2
    /\ \E i, j \in ToolUseIndices(response) : response[i].name # response[j].name

\* The strings of the non-empty Text parts of a sequence of parts, in order.
RECURSIVE TextStrings(_)
TextStrings(parts) ==
    IF parts = << >> THEN << >>
    ELSE (IF Head(parts).type = "text" /\ Head(parts).text # << >>
          THEN <<Head(parts).text>> ELSE << >>)
         \o TextStrings(Tail(parts))

\* The strings joined with sep between neighbours.
RECURSIVE Joined(_, _)
Joined(strs, sep) ==
    IF strs = << >> THEN << >>
    ELSE IF Len(strs) = 1 THEN strs[1]
    ELSE strs[1] \o sep \o Joined(Tail(strs), sep)

\* The strings one right after the other.
Concatenated(strs) == Joined(strs, << >>)

\* The Text strings of the assistant messages of a conversation, in order.
RECURSIVE AssistantTexts(_)
AssistantTexts(conv) ==
    IF conv = << >> THEN << >>
    ELSE (IF Head(conv).role = "assistant" THEN TextStrings(Head(conv).content) ELSE << >>)
         \o AssistantTexts(Tail(conv))

\* str(e) holds "429" or, in any letter case, "rate limit".
RateLimiting(e) == e.has429 \/ e.hasRateLimitWords

\* The run has ended and takes no further step.
Ended == pc = "done" /\ ~ENABLED Next

\* The summarization call has been issued.
SummaryIssued == Len(calls) > 0 /\ ~calls[Len(calls)].tools


\* C6 as stated: the assistant message records the ToolUse parts that come after
\* the first one.
C6_LaterToolUsesRecorded ==
    pc = "awaitTool" =>
        \A i \in ToolUseIndices(response) :
            \E p \in 1..Len(assistant_message.content) :
                /\ assistant_message.content[p].type = "tool_use"
                /\ assistant_message.content[p].id = response[i].id

\* C6, amended: the assistant message records the non-empty Text parts that come
\* before the first ToolUse part and that ToolUse part, and nothing that comes
\* after it; so no later ToolUse part ever enters the conversation.
C6_OnlyFirstToolUseRecorded ==
    /\ pc = "awaitTool" =>
          LET f == Least(ToolUseIndices(response))
              texts == TextStrings(SubSeq(response, 1, f - 1))
          IN  assistant_message =
                [role |-> "assistant",
                 content |-> [i \in 1..Len(texts) |-> [type |-> "text", text |-> texts[i]]]
                             \o <<response[f]>>]
    /\ \A u \in PartsOfType(current_messages, "tool_use") :
          current_messages[u[1]].content[u[2]].id[2] = 1

C6_Witness ==
    /\ pc = "awaitTool"
    /\ Len(response) >= 2
    /\ response[1].type = "tool_use"
    /\ response[2].type = "tool_use"

\* C7 as stated: the answer is the concatenation of the Text parts of the response.
C7_AnswerIsConcatenation ==
    exit = "answered" => outcome = Returned(Concatenated(TextStrings(response)))

\* C7, amended: a response of the loop without ToolUse part ends the run at once
\* (answered): the run returns the non-empty Text parts of the response, in
\* response order, joined by newlines, and makes no further model call and no tool
\* invocation; a response with a ToolUse part does not end the run.
C7_AnswerJoinsLines ==
    [][/\ (pc = "awaitModel" /\ failure' = failure) =>
            IF ToolUseIndices(response') = {}
            THEN /\ pc' = "done"
                 /\ exit' = "answered"
                 /\ outcome' = Returned(Joined(TextStrings(response'), NL))
                 /\ calls' = calls
                 /\ toolCalls' = toolCalls
            ELSE pc' = "awaitTool" /\ exit' = "running"
       /\ exit = "answered" => FALSE
       /\ exit' = "answered" => pc = "awaitModel" /\ failure' = failure]_vars

C7_Witness ==
    /\ exit = "answered"
    /\ Len(TextStrings(response)) >= 2
    /\ Ended

\* C8 as stated: after the summarization call the run returns the text of that
\* call's response.
C8_ReturnsSummaryText ==
    (pc = "done" /\ SummaryIssued) =>
        /\ failure.at = "none"
        /\ outcome = Returned(Joined(TextStrings(response), NL))

\* C8, amended: when the loop is exhausted and the conversation holds a ToolResult,
\* the run appends one user request and issues exactly one more model call, which
\* offers no tools; it returns the non-empty Text parts of that call's response
\* joined by newlines when the call succeeds and there is such a part, and the
\* fixed fallback sentence when the call fails or its response has no such part.
C8_SummaryOrFallback ==
    /\ (pc = "loop" /\ iteration >= maxIterations) => ~SummaryIssued
    /\ (pc \in {"awaitFinal", "done"} /\ SummaryIssued) =>
          /\ iteration = maxIterations
          /\ PartsOfType(current_messages, "tool_result") # {}
          /\ current_messages[Len(current_messages)] = UserText(SUMMARY_REQUEST)
          /\ Cardinality({m \in 1..Len(current_messages) :
                            current_messages[m] = UserText(SUMMARY_REQUEST)}) = 1
          /\ Len(calls) = maxIterations + 1
          /\ \A k \in 1..maxIterations : calls[k].tools
          /\ calls[Len(calls)].nmessages = Len(current_messages)
    /\ (pc = "done" /\ SummaryIssued) =>
          outcome = Returned(IF failure.at = "none" /\ TextStrings(response) # << >>
                             THEN Joined(TextStrings(response), NL)
                             ELSE FALLBACK_SENTENCE)
    /\ (pc = "done" /\ exit \in {"summarized", "fallback"}
            /\ PartsOfType(current_messages, "tool_result") # {}) => SummaryIssued

C8_Witness ==
    /\ Ended
    /\ SummaryIssued
    /\ exit = "summarized"
    /\ Len(TextStrings(response)) >= 2

\* C9 as stated: a rate-limit failure of a model call makes the run return the
\* concatenation of the Text parts of the assistant messages, or the apology.
C9_RateLimitSalvagesConcatenation ==
    (failure.at # "none" /\ RateLimiting(failure.error)) =>
        outcome = Returned(IF AssistantTexts(current_messages) # << >>
                           THEN Concatenated(AssistantTexts(current_messages))
                           ELSE RATE_LIMIT_APOLOGY)

\* C9, amended: a rate-limit failure of a model call of the loop ends the run with
\* no further model call or tool invocation: it returns the Text parts of the
\* assistant messages of the conversation joined by newlines when there is one,
\* and the fixed apology otherwise; a rate-limit failure of the summarization call
\* ends the run with the fixed fallback sentence.
C9_RateLimitSalvage ==
    /\ (failure.at = "loop" /\ RateLimiting(failure.error)) =>
          /\ Ended
          /\ outcome = Returned(IF AssistantTexts(current_messages) # << >>
                                THEN Joined(AssistantTexts(current_messages), NL)
                                ELSE RATE_LIMIT_APOLOGY)
    /\ (failure.at = "summary" /\ RateLimiting(failure.error)) =>
          /\ Ended
          /\ outcome = Returned(FALLBACK_SENTENCE)

C9_Witness ==
    /\ failure.at = "loop"
    /\ RateLimiting(failure.error)
    /\ Len(AssistantTexts(current_messages)) >= 2
    /\ exit = "salvaged"

\* C10 as stated: a failure of any model call that is not a rate-limit failure is
\* propagated to the caller.
C10_OtherFailurePropagates ==
    (failure.at # "none" /\ ~RateLimiting(failure.error)) => outcome.kind = "raised"

\* C10, amended: a failure of a model call of the loop that is not a rate-limit
\* failure ends the run by propagating that failure, and nothing else is ever
\* propagated; a failure of the summarization call, of any kind, is absorbed and
\* the run returns the fixed fallback sentence.
C10_LoopFailurePropagates ==
    /\ (failure.at = "loop" /\ ~RateLimiting(failure.error)) =>
          /\ Ended
          /\ outcome = [kind |-> "raised", error |-> failure.error]
    /\ (failure.at = "summary" /\ ~RateLimiting(failure.error)) =>
          /\ Ended
          /\ outcome = Returned(FALLBACK_SENTENCE)
    /\ outcome.kind = "raised" =>
          failure.at = "loop" /\ ~RateLimiting(failure.error)

C10_Witness ==
    /\ failure.at = "loop"
    /\ ~RateLimiting(failure.error)
    /\ outcome.kind = "raised"
    /\ Len(toolCalls) >= 1

\* C11: a failure raised while a tool is dispatched never ends the run and is never
\* propagated: the assistant message and a ToolResult with an error payload and the
\* id of the dispatched ToolUse are appended, and the loop goes on to its next
\* iteration, which is a model call when iterations remain.
C11_ToolFailureAbsorbed ==
    /\ [][(pc = "awaitTool" /\ toolReturns'[Len(toolReturns')] # "value") =>
            /\ pc' = "loop"
            /\ exit' = "running"
            /\ outcome' = [kind |-> "none"]
            /\ iteration' = iteration + 1
            /\ Len(current_messages') >= Len(current_messages) + 2
            /\ SubSeq(current_messages', 1, Len(current_messages)) = current_messages
            /\ current_messages'[Len(current_messages) + 1] = assistant_message
            /\ current_messages'[Len(current_messages')] =
                 [role |-> "user",
                  content |-> <<[type |-> "tool_result",
                                 tool_use_id |-> toolCalls[Len(toolCalls)].id,
                                 content |-> "error"]>>]]_vars
    /\ []((pc = "loop" /\ iteration < maxIterations) => ENABLED IssueModelCall)
    /\ [](outcome.kind = "raised" => failure.at = "loop")

C11_Witness ==
    /\ pc = "awaitModel"
    /\ Len(toolReturns) = 1
    /\ toolReturns[1] = "raise"
    /\ current_messages[Len(current_messages)].content[1].content = "error"

\* C12: within one run model calls and tool invocations are strictly sequential: a
\* tool invocation starts only in the step in which the model call that asked for
\* it comes back, a model call starts only when every tool invocation has come
\* back and its ToolResult is in the conversation, and at no time are two
\* operations of the run outstanding.
C12_StrictlySequential ==
    /\ [](LET modelOut == Len(calls) - modelReturns
              toolOut == Len(toolCalls) - Len(toolReturns)
          IN  /\ modelOut \in {0, 1}
              /\ toolOut \in {0, 1}
              /\ modelOut + toolOut <= 1)
    /\ [][Len(toolCalls') > Len(toolCalls) =>
            /\ Len(toolCalls') = Len(toolCalls) + 1
            /\ Len(calls) - modelReturns = 1
            /\ modelReturns' = Len(calls)
            /\ \E i \in 1..Len(response') :
                  /\ response'[i].type = "tool_use"
                  /\ response'[i].id = toolCalls'[Len(toolCalls')].id]_vars
    /\ [][Len(calls') > Len(calls) =>
            /\ Len(calls') = Len(calls) + 1
            /\ modelReturns = Len(calls)
            /\ Len(toolReturns) = Len(toolCalls)
            /\ \A j \in 1..Len(toolCalls) :
                  \E r \in PartsOfType(current_messages', "tool_result") :
                      current_messages'[r[1]].content[r[2]].tool_use_id = toolCalls[j].id]_vars

C12_Witness ==
    /\ pc = "awaitTool"
    /\ Len(toolCalls) = 2
    /\ Len(toolReturns) = 1
    /\ modelReturns = 2

\* C15: when the loop is exhausted and the conversation holds no ToolResult, the run
\* returns the fixed fallback sentence and issues no further model call.
C15_FallbackWithoutToolResult ==
    /\ [][(pc = "loop" /\ iteration >= maxIterations
               /\ PartsOfType(current_messages, "tool_result") = {}) =>
             /\ pc' = "done"
             /\ outcome' = Returned(FALLBACK_SENTENCE)
             /\ calls' = calls
             /\ toolCalls' = toolCalls]_vars
    /\ []((exit = "fallback" /\ PartsOfType(current_messages, "tool_result") = {}) =>
            (Ended /\ outcome = Returned(FALLBACK_SENTENCE)))

C15_Witness ==
    /\ pc = "done"
    /\ exit = "fallback"
    /\ calls = << >>
    /\ PartsOfType(current_messages, "tool_result") = {}

\* --------------------------------------------- claims on the conversation
IsPrefixOf(a, b) == Len(a) <= Len(b) /\ SubSeq(b, 1, Len(a)) = a

\* C28: the conversation of a run only grows at its end: no step removes, reorders
\* or changes a message, and every model call is handed the whole conversation of
\* that moment; so what the previous call was handed is a prefix of what the next
\* call is handed.
C28_ConversationAppendOnly ==
    [][/\ IsPrefixOf(current_messages, current_messages')
       /\ Len(calls') > Len(calls) =>
             /\ calls'[Len(calls')].nmessages = Len(current_messages')
             /\ \A k \in 1..Len(calls) : calls[k].nmessages <= calls'[Len(calls')].nmessages]_vars

C28_Witness ==
    /\ Len(calls) = 3
    /\ calls[1].nmessages < calls[2].nmessages
    /\ calls[2].nmessages < calls[3].nmessages
    /\ ~calls[3].tools

\* C29 as stated: every iteration that dispatches a tool appends exactly two
\* messages, the assistant message and then one user message with the tool result,
\* whatever step of the dispatch failed; after k such iterations the conversation
\* has the initial length plus 2k messages.
C29_TwoMessagesPerIteration ==
    pc \in {"loop", "awaitModel", "awaitTool"} =>
        /\ Len(current_messages) = Len(messages) + 2 * Len(toolReturns)
        /\ \A k \in 1..Len(toolReturns) :
              /\ current_messages[Len(messages) + 2 * k - 1].role = "assistant"
              /\ current_messages[Len(messages) + 2 * k].role = "user"

\* C30: when the loop has run out of its maxIterations >= 1 iterations the
\* conversation holds a tool result, so the summarization call is issued; a run
\* that returns the fallback sentence without a summarization call was started with
\* maxIterations = 0.
C30_ExhaustionHasToolResult ==
    /\ (pc = "loop" /\ iteration >= maxIterations /\ maxIterations >= 1) =>
          PartsOfType(current_messages, "tool_result") # {}
    /\ (pc = "done" /\ exit = "fallback" /\ \A k \in 1..Len(calls) : calls[k].tools) =>
          maxIterations = 0
    /\ (pc \in {"awaitFinal", "done"} /\ \E k \in 1..Len(calls) : ~calls[k].tools) =>
          iteration = maxIterations

C30_Witness ==
    /\ maxIterations = 2
    /\ pc = "awaitFinal"
    /\ toolReturns = <<"raise", "raise">>

\* C31: no step of a run changes the message list its caller passed: whatever the
\* run appends (assistant messages, tool results, the summarization request) goes
\* to its own copy, on every path to the end of the run.
C31_CallerListUnchanged ==
    [][/\ messages' = messages
       /\ IsPrefixOf(messages', current_messages')]_vars

C31_Witness ==
    /\ pc = "done"
    /\ exit = "summarized"
    /\ Len(messages) = 1
    /\ Len(current_messages) = Len(messages) + 2 * maxIterations + 1
    /\ current_messages[Len(current_messages)].role = "user"
    /\ current_messages[2].role = "assistant"

\* ------------------------------------------------- claims on athena_results
\* The elapsed time the latest deadline test saw, the bounds of the call, and the
\* outcomes by the names the specification gives them.
Elapsed == now - start
MaxWaitMs == max_wait_s * MsPerSecond
PollInterval == wait_ms
BackendRaised == result.kind = "ClientError"
AfterStatusFetch == fetches > 0 /\ ppc \in {"sleep", "results", "done"} /\ ~BackendRaised
IsTimeout == result.kind = "TimeoutError"
IsRemoteFailure == result.kind = "RuntimeError"
IsResultSet == result.kind = "returned"
Counted == fetches < MaxCount

\* C16 as stated: in every poll iteration in which the elapsed time exceeds maxWait
\* the call fails with Timeout, whatever state the iteration fetched.
C16_TimeoutWhateverTheState ==
    (AfterStatusFetch /\ Elapsed > MaxWaitMs) => IsTimeout

\* C16: the deadline is looked at only in an iteration whose fetched state is neither
\* Succeeded, Failed nor Cancelled: such an iteration fails with Timeout exactly
\* when the elapsed time exceeds maxWait and suspends otherwise; a fetched Succeeded
\* leads to the results and a fetched Failed or Cancelled to RemoteFailure, however
\* much time has elapsed.
C16_TimeoutOnlyWhileNotTerminal ==
    AfterStatusFetch =>
        /\ (q.State \in NonTerminal /\ Elapsed > MaxWaitMs) => (IsTimeout /\ ppc = "done")
        /\ (q.State \in NonTerminal /\ Elapsed <= MaxWaitMs) =>
               (ppc = "sleep" /\ result.kind = "none")
        /\ q.State = "SUCCEEDED" => (ppc = "results" \/ IsResultSet)
        /\ q.State \in {"FAILED", "CANCELLED"} => IsRemoteFailure

C16_Witness ==
    /\ IsTimeout
    /\ q.State = "RUNNING"
    /\ sleeps >= 1

\* C17 as stated: a job that reports Running on every status fetch makes the call
\* fail with Timeout, never with a result set or RemoteFailure, at an elapsed time
\* between maxWait and maxWait + pollInterval when status fetches take no time.
C17_RunningForeverTimesOut ==
    /\ [](execution.State \in NonTerminal => (~IsResultSet /\ ~IsRemoteFailure))
    /\ []((IsTimeout /\ ~fetchSlow) =>
            (Elapsed >= MaxWaitMs /\ Elapsed <= MaxWaitMs + PollInterval))
    /\ <>(execution.State \in Terminal \/ result.kind = "ValueError" \/ BackendRaised
            \/ IsTimeout)

\* C17: the same for a pollInterval greater than 0; with a pollInterval of 0 the
\* call ends only if status fetches take time.
C17_RunningForeverTimesOutIfSuspending ==
    /\ [](execution.State \in NonTerminal => (~IsResultSet /\ ~IsRemoteFailure))
    /\ []((IsTimeout /\ ~fetchSlow) =>
            (Elapsed >= MaxWaitMs /\ Elapsed <= MaxWaitMs + PollInterval))
    /\ <>(execution.State \in Terminal \/ result.kind = "ValueError" \/ BackendRaised
            \/ IsTimeout \/ PollInterval = 0)

C17_Witness ==
    /\ IsTimeout
    /\ ~fetchSlow
    /\ execution.State = "RUNNING"
    /\ sleeps >= 2
    /\ Elapsed > MaxWaitMs

C19_RemoteFailureCarriesReason ==
    /\ (AfterStatusFetch /\ q.State \in {"FAILED", "CANCELLED"}) => IsRemoteFailure
    /\ IsRemoteFailure =>
          /\ q.State \in {"FAILED", "CANCELLED"}
          /\ q = execution
          /\ \E i \in 1..Len(result.message) : result.message[i] = q.State
          /\ q.StateChangeReason # NONE =>
                result.message[Len(result.message)] = q.StateChangeReason
          /\ resultFetches = 0
          /\ ~ENABLED PollOnce
          /\ ~ENABLED Wake
          /\ ~ENABLED FetchResults

C19_Witness ==
    /\ IsRemoteFailure
    /\ q.State = "CANCELLED"
    /\ q.StateChangeReason # NONE
    /\ sleeps >= 1

\* C20: results are fetched only after a status fetch of the call reported
\* Succeeded, at most once, and exactly once before a result set is returned; the
\* result set has at most maxRows data rows; no result set is returned when the
\* last fetched state is Running, Failed or Cancelled.
C20_ResultsOnlyAfterSucceeded ==
    /\ resultFetches <= 1
    /\ resultFetches = 1 => (fetches > 0 /\ q.State = "SUCCEEDED")
    /\ IsResultSet =>
          /\ resultFetches = 1
          /\ fetches > 0
          /\ q.State = "SUCCEEDED"
          /\ Len(result.value.rows) <= max_rows
    /\ (fetches > 0 /\ q.State # "SUCCEEDED") => (~IsResultSet /\ ppc # "results")

C20_Witness ==
    /\ IsResultSet
    /\ max_rows >= 2
    /\ Len(result.value.rows) = max_rows - 1

\* C21 as stated: every call of athena_results terminates, provided wall-clock time
\* keeps advancing, and ends in a result set, RemoteFailure or Timeout.
C21_EndsInOneOfThree ==
    /\ <>(ppc = "done")
    /\ [](ppc = "done" => (IsResultSet \/ IsRemoteFailure \/ IsTimeout))

\* C21: every call terminates, provided wall-clock time keeps advancing.  A call
\* without identifier ends with a validation error and a backend call that raises
\* ends the call with its exception; every other call ends in a result set after a
\* fetched Succeeded, in RemoteFailure after a fetched Failed or Cancelled, or in
\* Timeout after a fetched non-terminal state past the deadline.
C21_TerminatesWithOneOutcome ==
    /\ <>(ppc = "done")
    /\ [](ppc # "done" => result.kind = "none")
    /\ [](ppc = "done" =>
            /\ result.kind \in {"returned", "RuntimeError", "TimeoutError",
                                "ValueError", "ClientError"}
            /\ (result.kind = "ValueError") = (fetches = 0)
            /\ IsResultSet => q.State = "SUCCEEDED"
            /\ IsRemoteFailure => q.State \in {"FAILED", "CANCELLED"}
            /\ IsTimeout => (q.State \in NonTerminal /\ Elapsed > MaxWaitMs))

C21_Witness ==
    /\ ppc = "done"
    /\ IsTimeout
    /\ PollInterval = 0
    /\ execution.State = "RUNNING"
    /\ sleeps >= 2

\* ------------------------------------- claims on athena_query and athena_status
\* The words of a statement: its maximal runs of letters, digits and underscores,
\* each in upper case.
WordCharacters ==
    Digits \cup {"_", "U+017F"}
        \cup {LowerCase[i] : i \in 1..Len(LowerCase)}
        \cup {UpperCase[i] : i \in 1..Len(UpperCase)}
WordCharacter(c) == c \in WordCharacters
InUpperCase(w) ==
    [i \in 1..Len(w) |->
        IF \E n \in 1..Len(LowerCase) : LowerCase[n] = w[i]
        THEN UpperCase[CHOOSE n \in 1..Len(LowerCase) : LowerCase[n] = w[i]]
        ELSE w[i]]
WordStarts(s) ==
    {i \in 1..Len(s) : WordCharacter(s[i]) /\ (i = 1 \/ ~WordCharacter(s[i - 1]))}
WordEnd(s, i) ==
    CHOOSE j \in i..Len(s) :
        /\ j = Len(s) \/ ~WordCharacter(s[j + 1])
        /\ \A m \in i..j : WordCharacter(s[m])
WordsOf(s) == {InUpperCase(SubSeq(s, i, WordEnd(s, i))) : i \in WordStarts(s)}
FirstWord(s) ==
    IF WordStarts(s) = {} THEN << >>
    ELSE LET i == CHOOSE n \in WordStarts(s) : \A m \in WordStarts(s) : n <= m
         IN  InUpperCase(SubSeq(s, i, WordEnd(s, i)))
ForbiddenWords ==
    {<<"I", "N", "S", "E", "R", "T">>,
     <<"U", "P", "D", "A", "T", "E">>,
     <<"D", "E", "L", "E", "T", "E">>,
     <<"D", "R", "O", "P">>,
     <<"A", "L", "T", "E", "R">>,
     <<"T", "R", "U", "N", "C", "A", "T", "E">>,
     <<"C", "R", "E", "A", "T", "E">>,
     <<"M", "S", "C", "K">>,
     <<"G", "R", "A", "N", "T">>,
     <<"R", "E", "V", "O", "K", "E">>}
ValidationError == result.kind = "ValueError"

\* C22: a statement that holds one of the ten words as a whole word, in any letter
\* case and at any position, makes athena_query fail with a validation error, and
\* no start_query_execution call is made for it.
C22_ForbiddenWordRejected ==
    (fn = "athena_query" /\ WordsOf(sql) \cap ForbiddenWords # {}) =>
        /\ started = << >>
        /\ ppc = "done" => ValidationError

C22_Witness ==
    /\ fn = "athena_query"
    /\ ppc = "done"
    /\ ValidationError
    /\ sql = <<" ", "u", "p", "d", "a", "t", "e", " ">>

\* C23 as stated: every statement athena_query submits to the backend is a SELECT or
\* an EXPLAIN statement; every other statement is rejected with the message
\* 'Only SELECT/EXPLAIN allowed.' and not submitted.
C23_OnlySelectOrExplainSubmitted ==
    fn = "athena_query" =>
        /\ \A i \in 1..Len(started) :
              FirstWord(started[i]) \in {<<"S", "E", "L", "E", "C", "T">>,
                                         <<"E", "X", "P", "L", "A", "I", "N">>}
        /\ (ppc = "done" /\ FirstWord(sql) \notin {<<"S", "E", "L", "E", "C", "T">>,
                                                   <<"E", "X", "P", "L", "A", "I", "N">>}) =>
              (started = << >> /\ result.message = <<"Only SELECT/EXPLAIN allowed.">>)

\* C24: without a job identifier (both parameters None or empty) athena_results and
\* athena_status fail with a validation error at once: no backend call is made, no
\* suspension happens and no time passes.
C24_MissingIdentifierRejected ==
    (/\ fn \in {"athena_results", "athena_status"}
     /\ query_execution_id \in {NONE, ""}
     /\ queryExecutionId \in {NONE, ""}) =>
        /\ fetches = 0
        /\ sleeps = 0
        /\ resultFetches = 0
        /\ now = 0
        /\ ppc \in {"call", "status", "done"}
        /\ ppc = "done" => ValidationError

C24_Witness ==
    /\ fn = "athena_status"
    /\ query_execution_id = ""
    /\ queryExecutionId = NONE
    /\ ppc = "done"
    /\ ValidationError

\* ------------------------------------------------ claims on extract_tool_result
ExtractorCalled == mcp_result # NotCalled /\ extracted.kind # "none"

\* An item the loop passes over: no model_dump_json, no truthy json, no non-empty
\* text.
PassedOver(item) ==
    /\ item.dump.state = "absent"
    /\ item.json.state \in {"absent", "falsy"}
    /\ item.text.state = "absent" \/ (item.text.state = "present" /\ item.text.text = << >>)

\* The item the result is taken from: the first that is not passed over.
HasUsedItem ==
    /\ ExtractorCalled
    /\ mcp_result.content.state = "present"
    /\ \E i \in 1..Len(mcp_result.content.items) : ~PassedOver(mcp_result.content.items[i])
UsedItem ==
    mcp_result.content.items[
        CHOOSE i \in 1..Len(mcp_result.content.items) :
            /\ ~PassedOver(mcp_result.content.items[i])
            /\ \A j \in 1..(i - 1) : PassedOver(mcp_result.content.items[j])]

\* The item is read through model_dump_json, or through its text attribute.
ReadByDump(item) == item.dump.state = "present"
ReadByText(item) ==
    /\ item.dump.state = "absent"
    /\ item.json.state \in {"absent", "falsy"}
    /\ item.text.state = "present"
    /\ item.text.text # << >>
OuterPayload(item) == IF ReadByDump(item) THEN item.dump.text ELSE item.text.text

\* A decoded value is an object with a string member text; that string.
TextMembers(v) ==
    {i \in 1..Len(v.o) : v.o[i][1] = <<"t", "e", "x", "t">> /\ v.o[i][2].t = "string"}
IsTextWrapper(v) == v.t = "object" /\ TextMembers(v) # {}
WrappedText(v) == v.o[CHOOSE i \in TextMembers(v) : TRUE][2].s

\* The payload {"text": "{\"a\":1}"} and the value {"a": 1}.
ExamplePayload == <<"{", "\"", "t", "e", "x", "t", "\"", ":", " ", "\"", "{", "\\", "\"", "a", "\\", "\"", ":", "1", "}", "\"", "}">>
ExampleValue == [t |-> "object", s |-> << >>,
                 o |-> <<<<<<"a">>, [t |-> "number", s |-> <<"1">>, o |-> << >>]>>>>]

\* {"text": raw} and {"error": message}: objects with this one member and no other.
OnlyText(raw) == [t |-> "object", s |-> << >>,
                  o |-> <<<<<<"t", "e", "x", "t">>, [t |-> "string", s |-> raw, o |-> << >>]>>>>]
IsOnlyError(v) ==
    /\ v.t = "object"
    /\ Len(v.o) = 1
    /\ v.o[1][1] = <<"e", "r", "r", "o", "r">>
    /\ v.o[1][2].t = "string"

\* C25: extract_tool_result never raises: whatever the raw response (no content,
\* content that cannot be iterated, items of any shape, text or inner text that is
\* not JSON, accessors that raise), the call returns a value.
C25_NeverFails ==
    /\ extracted.kind \in {"none", "returned"}
    /\ extracted.kind = "none" => extracted = NothingYet

C25_Witness ==
    /\ mcp_result.content.state = "present"
    /\ Len(mcp_result.content.items) = 2
    /\ PassedOver(mcp_result.content.items[1])
    /\ mcp_result.content.items[2].dump.state = "raises"
    /\ extracted.kind = "returned"
    /\ IsOnlyError(extracted.value)

HasRawText(item) ==
    \/ ReadByText(item)
    \/ /\ ReadByDump(item)
       /\ JsonLoads(item.dump.text).ok => IsTextWrapper(JsonLoads(item.dump.text).v)
RawText(item) ==
    IF ReadByText(item) THEN item.text.text
    ELSE IF JsonLoads(item.dump.text).ok THEN WrappedText(JsonLoads(item.dump.text).v)
    ELSE item.dump.text

\* C27 as stated: when the raw text of the response is not JSON, the call returns
\* exactly {"text": <raw text>}, with no other member.
C27_RawTextAlwaysWrapped ==
    (HasUsedItem /\ HasRawText(UsedItem) /\ ~JsonLoads(RawText(UsedItem)).ok) =>
        extracted = [kind |-> "returned", value |-> OnlyText(RawText(UsedItem))]

\* C27: an item read through its non-empty text attribute whose text is not JSON
\* gives exactly {"text": <raw text>}; an item read through model_dump_json gives the
\* whole decoded dump when the dump's text string is not JSON, and {"error": message}
\* when the dump itself is not JSON.
C27_RawTextFallback ==
    HasUsedItem =>
        /\ (ReadByText(UsedItem) /\ ~JsonLoads(UsedItem.text.text).ok) =>
              extracted = [kind |-> "returned", value |-> OnlyText(UsedItem.text.text)]
        /\ ReadByDump(UsedItem) =>
              LET outer == JsonLoads(UsedItem.dump.text)
              IN  /\ (outer.ok /\ IsTextWrapper(outer.v)
                         /\ ~JsonLoads(WrappedText(outer.v)).ok) =>
                        extracted = [kind |-> "returned", value |-> outer.v]
                  /\ ~outer.ok =>
                        (extracted.kind = "returned" /\ IsOnlyError(extracted.value))

C27_Witness ==
    /\ HasUsedItem
    /\ ReadByText(UsedItem)
    /\ UsedItem.text.text = <<"h", "e", "l", "l", "o">>
    /\ extracted.value = OnlyText(<<"h", "e", "l", "l", "o">>)

\* ===================================================== concurrent questions
\* The handlers ask_data and handle_mentions are coroutines: each question gets
\* its own invocation, and an invocation gives up control at every await, so the
\* steps of different invocations interleave.  Each invocation opens its own
\* MCP session on its own server process.
Runs == 1..NumRuns

\* The text that identifies the question of a run, and what the hosts produce
\* for it: the question text, the text blocks of the model and the tool values.
Owners == <<"one", "two", "three", "four">>

\* question.lower().strip() in ['refresh', 'reset', 'clear', ...]
RefreshCommands == {<<"refresh">>, <<"reset">>, <<"clear">>, <<"new conversation">>,
                    <<"refresh conversation">>}

\* The texts a handler can receive for run r.
QuestionTexts(r) == {<< >>, <<"refresh">>, <<Owners[r]>>}

Waiting ==
    [pc |-> "waiting", messages |-> << >>, current_messages |-> << >>,
     iteration |-> 0, assistant_message |-> [role |-> "assistant", content |-> << >>],
     tool_use_id |-> << >>, modelOut |-> 0, toolOut |-> 0, reply |-> [kind |-> "none"]]

\* The handler sends its reply; the locals of the invocation are gone.
Replied(rep) == [Waiting EXCEPT !.pc = "done", !.reply = rep]

\* What the model host can answer to call k of run r.
RunResponses(r, k) ==
    {<<TextPart(<<Owners[r]>>)>>,
     <<TextPart(<<Owners[r]>>), ToolUsePart(<<r, k>>, "athena_query", "i2")>>,
     <<ToolUsePart(<<r, k>>, "athena_results", "i3")>>}

RunsInit ==
    /\ OrchestratorOff
    /\ PollerOff
    /\ ServerOff
    /\ ExtractorOff
    /\ runs = [r \in Runs |-> Waiting]

\* ask_data or handle_mentions (the two handlers differ only in how they get the
\* text) up to the call of call_llm_with_tools, and the start of call_llm_with_tools
\* up to its loop.
QuestionArrives(r) ==
    /\ runs[r].pc = "waiting"
    /\ \E text \in QuestionTexts(r) :
          runs' = [runs EXCEPT ![r] =
              IF text = << >> THEN Replied([kind |-> "help"])
              ELSE IF text \in RefreshCommands
              THEN Replied([kind |-> "refreshed"])
              ELSE [@ EXCEPT !.pc = "loop",
                             !.messages = <<UserText(text)>>,
                             !.current_messages = <<UserText(text)>>]]
    /\ UNCHANGED <<orchVars, pollVars, queryVars, extractVars>>

\* The loop of run r issues its model call.
RunIssuesModelCall(r) ==
    /\ runs[r].pc = "loop"
    /\ runs[r].iteration < RunIterations
    /\ runs' = [runs EXCEPT ![r].pc = "awaitModel", ![r].modelOut = @ + 1]
    /\ UNCHANGED <<orchVars, pollVars, queryVars, extractVars>>

\* The model call of run r raises: salvage or apology on a rate limit, otherwise the
\* exception reaches the handler, which replies with the error.
RunModelFails(r) ==
    /\ runs[r].pc = "awaitModel"
    /\ \E e \in Errors :
          runs' = [runs EXCEPT ![r] =
              IF IsRateLimit(e)
              THEN Replied([kind |-> "answer", text |-> SalvageAnswer(@.current_messages)])
              ELSE Replied([kind |-> "error", error |-> e])]
    /\ UNCHANGED <<orchVars, pollVars, queryVars, extractVars>>

\* Variant: the tool call of run r is started without being awaited.
RunModelRespondsNoAwait(r) ==
    /\ runs[r].pc = "awaitModel"
    /\ \E resp \in RunResponses(r, runs[r].iteration + 1) :
          runs' = [runs EXCEPT ![r] =
              IF FirstToolUse(resp) = 0
              THEN Replied([kind |-> "answer", text |-> FinalText(resp)])
              ELSE [@ EXCEPT !.pc = "loop",
                             !.iteration = @ + 1,
                             !.assistant_message =
                                 [role |-> "assistant", content |-> AssistantContent(resp)],
                             !.tool_use_id = resp[FirstToolUse(resp)].id,
                             !.modelOut = @ - 1,
                             !.toolOut = @ + 1]]
    /\ UNCHANGED <<orchVars, pollVars, queryVars, extractVars>>

\* The model call of run r returns: the text is the answer, or the first tool use is
\* dispatched on the session of the run.
RunModelResponds(r) ==
    /\ runs[r].pc = "awaitModel"
    /\ \E resp \in RunResponses(r, runs[r].iteration + 1) :
          runs' = [runs EXCEPT ![r] =
              IF FirstToolUse(resp) = 0
              THEN Replied([kind |-> "answer", text |-> FinalText(resp)])
              ELSE [@ EXCEPT !.pc = "awaitTool",
                             !.assistant_message =
                                 [role |-> "assistant", content |-> AssistantContent(resp)],
                             !.tool_use_id = resp[FirstToolUse(resp)].id,
                             !.modelOut = @ - 1,
                             !.toolOut = @ + 1]]
    /\ UNCHANGED <<orchVars, pollVars, queryVars, extractVars>>

\* What the tool call of a run can do: give a value or raise.  (A value that
\* json.dumps rejects changes the conversation as in AfterTool; it adds nothing to
\* how runs interleave.)
RunToolOutcomes == {"value", "raise"}

\* The conversation of a run after its tool call came back with outcome o.
RunAfterTool(r, run, o) ==
    IF o = "value"
    THEN AppendToolSuccess(run.current_messages, run.assistant_message,
                           run.tool_use_id, Owners[r])
    ELSE AppendToolFailure(run.current_messages, run.assistant_message, run.tool_use_id)

\* Variant: the conversation is one list of the module, which every run appends to.
RunToolReturnsShared(r) ==
    /\ runs[r].pc = "awaitTool"
    /\ \E o \in RunToolOutcomes :
          runs' = [x \in Runs |->
              IF x = r
              THEN [runs[r] EXCEPT !.pc = "loop", !.iteration = @ + 1, !.toolOut = @ - 1,
                                   !.current_messages = RunAfterTool(r, runs[r], o)]
              ELSE IF runs[x].pc \in {"loop", "awaitModel", "awaitTool", "awaitFinal"}
              THEN [runs[x] EXCEPT !.current_messages =
                        @ \o <<runs[r].assistant_message,
                               ToolResultMessage(runs[r].tool_use_id, Owners[r])>>]
              ELSE runs[x]]
    /\ UNCHANGED <<orchVars, pollVars, queryVars, extractVars>>

\* The tool call of run r comes back; assistant message and tool result are appended
\* to the conversation of the run.
RunToolReturns(r) ==
    /\ runs[r].pc = "awaitTool"
    /\ \E o \in RunToolOutcomes :
          runs' = [runs EXCEPT ![r] =
              [@ EXCEPT !.pc = "loop", !.iteration = @ + 1, !.toolOut = @ - 1,
                        !.current_messages = RunAfterTool(r, runs[r], o)]]
    /\ UNCHANGED <<orchVars, pollVars, queryVars, extractVars>>

\* The loop of run r is exhausted: the summarization call, or the fixed sentence.
RunExhausted(r) ==
    /\ runs[r].pc = "loop"
    /\ runs[r].iteration >= RunIterations
    /\ runs' = [runs EXCEPT ![r] =
          IF HasData(@.current_messages)
          THEN [@ EXCEPT !.pc = "awaitFinal", !.modelOut = @ + 1,
                         !.current_messages = Append(@, UserText(SUMMARY_REQUEST))]
          ELSE Replied([kind |-> "answer", text |-> FALLBACK_SENTENCE])]
    /\ UNCHANGED <<orchVars, pollVars, queryVars, extractVars>>

\* The summarization call of run r returns or raises.
RunFinalReturns(r) ==
    /\ runs[r].pc = "awaitFinal"
    /\ \E raised \in BOOLEAN, resp \in {<<TextPart(<<Owners[r]>>)>>, << >>} :
          runs' = [runs EXCEPT ![r] =
              Replied([kind |-> "answer",
                          text |-> IF raised THEN FALLBACK_SENTENCE ELSE SummaryAnswer(resp)])]
    /\ UNCHANGED <<orchVars, pollVars, queryVars, extractVars>>

RunsNext ==
    \/ \E r \in Runs : QuestionArrives(r)
    \/ \E r \in Runs : RunIssuesModelCall(r)
    \/ \E r \in Runs : RunModelFails(r)
    \/ \E r \in Runs : RunModelResponds(r)
    \/ \E r \in Runs : RunToolReturns(r)
    \/ \E r \in Runs : RunExhausted(r)
    \/ \E r \in Runs : RunFinalReturns(r)

RunsSpec == RunsInit /\ [][RunsNext]_vars

\* ---------------------------------------------- claims on concurrent questions
\* The operation run r is executing: a model call, a tool call, or the poll of
\* athena_results inside its tool call.
Executing(r) ==
    CASE runs[r].pc \in {"awaitModel", "awaitFinal"} -> "model call"
      [] runs[r].pc = "awaitTool" ->
            IF \E p \in 1..Len(runs[r].assistant_message.content) :
                  /\ runs[r].assistant_message.content[p].type = "tool_use"
                  /\ runs[r].assistant_message.content[p].name = "athena_results"
            THEN "poll" ELSE "tool call"
      [] OTHER -> NONE

\* C13 as stated: across the process no two of the operations model call, tool call
\* and poll are executing at the same time.
C13_OneOperationInProcess ==
    Cardinality({r \in Runs : Executing(r) # NONE}) <= 1

\* C13: each run has at most one operation outstanding, a model call or a tool
\* call; nothing keeps the operations of different runs apart.
C13_OneOperationPerRun ==
    \A r \in Runs :
        /\ runs[r].modelOut \in {0, 1}
        /\ runs[r].toolOut \in {0, 1}
        /\ runs[r].modelOut + runs[r].toolOut <= 1
        /\ (Executing(r) = "model call") = (runs[r].modelOut = 1)
        /\ (Executing(r) \in {"tool call", "poll"}) = (runs[r].toolOut = 1)

C13_Witness ==
    \E a, b \in Runs :
        /\ a # b
        /\ Executing(a) = "model call"
        /\ Executing(b) = "poll"

\* What belongs to run r: its question, the texts and tool uses the model host
\* produced for it, the results of its tool calls, and the fixed sentences.
OwnPart(r, part) ==
    CASE part.type = "str"         -> part.text \in {<<Owners[r]>>, SUMMARY_REQUEST}
      [] part.type = "text"        -> part.text = <<Owners[r]>>
      [] part.type = "tool_use"    -> part.id[1] = r
      [] part.type = "tool_result" -> /\ part.tool_use_id[1] = r
                                      /\ part.content \in {Owners[r], "error"}
      [] OTHER                     -> FALSE
OwnAnswer(r, text) ==
    \/ text \in {FALLBACK_SENTENCE, RATE_LIMIT_APOLOGY}
    \/ \A i \in 1..Len(text) : text[i] \in {Owners[r], NL[1]}

\* C14: under every interleaving the conversation of a run starts as the one user
\* message of its own question, and nothing produced for another question is in
\* its conversation or in its answer.
C14_ConversationsIsolated ==
    \A r \in Runs :
        /\ runs[r].pc \in {"loop", "awaitModel", "awaitTool", "awaitFinal"} =>
              /\ runs[r].current_messages[1] = UserText(<<Owners[r]>>)
              /\ runs[r].messages = <<UserText(<<Owners[r]>>)>>
              /\ runs[r].iteration = 0 =>
                    runs[r].current_messages = <<UserText(<<Owners[r]>>)>>
        /\ \A m \in 1..Len(runs[r].current_messages) :
              \A p \in 1..Len(runs[r].current_messages[m].content) :
                  OwnPart(r, runs[r].current_messages[m].content[p])
        /\ \A p \in 1..Len(runs[r].assistant_message.content) :
              OwnPart(r, runs[r].assistant_message.content[p])
        /\ runs[r].reply.kind = "answer" => OwnAnswer(r, runs[r].reply.text)

C14_Witness ==
    \E a, b \in Runs :
        /\ a # b
        /\ runs[a].pc = "awaitTool"
        /\ Len(runs[b].current_messages) >= 3
        /\ runs[b].pc = "awaitFinal"
====
